---- MODULE Spec2Model ----
(***************************************************************************)
(* A model of the frame scoring and selection engine of sharp_frames:      *)
(*   - FrameSelector (processing/frame_selector.py): the three selection   *)
(*     policies best_n, batched and outlier_removal;                       *)
(*   - SharpnessAnalyzer (processing/sharpness_analyzer.py): the chunked,  *)
(*     thread-pooled scorer and its progress callbacks;                    *)
(*   - the configuration forms and IntRangeValidator of the interface;     *)
(*   - SelectionScreen (ui/screens/selection.py): parameter edits and the  *)
(*     debounced preview tasks;                                            *)
(*   - the legacy ProcessingScreen (textual_interface.py): the worker      *)
(*     thread, its progress events and the handlers of the UI thread.      *)
(*                                                                         *)
(* Python lists are 0-based; sequences here are 1-based, so frames[k] of   *)
(* the source is frames[k + 1] here.  Scores are small naturals; the       *)
(* weighted score (score * 0.7) is kept in tenths (score * 7).             *)
(***************************************************************************)
EXTENDS Integers, Sequences, FiniteSets, TLC

VARIABLES
    frames,        \* FrameSelector input: the list of FrameData handed to the call
    sel_call,      \* the call made on the selector: operation, method, **params
    sel_ret,       \* what the call gave back: a list, a count or an exception
    sel_initial,   \* best_n: selected_frames as _select_initial_segments returned it
    sel_filled,    \* best_n: selected_frames after _fill_remaining_slots
    sel_batches,   \* batched: start_idx and end_idx of each round of the loop
    extraction_result, \* scorer input: the ExtractionResult handed to calculate_sharpness
    sharpness_result,  \* what calculate_sharpness returned, once it has
    processing_cancelled, \* ProcessingScreen.processing_cancelled
    paths,         \* scorer input: frame_paths
    max_workers,   \* SharpnessAnalyzer.max_workers
    chunk_size,    \* chunk_size of _calculate_sharpness_parallel
    cb_kind,       \* which progress callback the scorer runs with
    sc_pc,         \* where the scorer's main thread is
    scores,        \* _calculate_sharpness_parallel: scores (extended chunk by chunk)
    processed_count, \* _calculate_sharpness_parallel: processed_count
    chunk_start,   \* 0-based start of the current chunk
    chunk_scores,  \* _process_chunk_parallel: scores of the current chunk
    completed_count, \* _process_chunk_parallel: completed_count
    task,          \* per task of the current chunk: queued, running, done, collected
    progress_log,  \* the calls the caller's progress callback received
    collect_order, \* positions of frame_paths in the order as_completed gave them
    failed_chunks, \* chunk starts whose parallel stage failed as a whole
    submit_failed, \* chunk starts at which executor.submit raised
    form,          \* the configuration screen of the behaviour, if any
    config_data,   \* the form's config_data: a dict, here a function on its keys
    current_step,  \* the form's current_step (0-based position in steps)
    processing_screen, \* the config the processing screen was pushed with
    ui_event,      \* the last button handled by the form, and how it went
    validator,     \* an IntRangeValidator: its min_value and max_value
    value,         \* the string handed to validate
    validation,    \* the ValidationResult validate returned
    current_method,     \* SelectionScreen.current_method
    current_parameters, \* SelectionScreen.current_parameters: a dict
    preview_task,  \* SelectionScreen.preview_task: the number of the task, 0 for None
    asyncio_tasks, \* the tasks made by asyncio.create_task, by number: where each is
    selected_count, \* SelectionScreen.selected_count: the preview on display
    selection_event, \* the last event SelectionScreen handled, and the method it names
    processing_complete, \* legacy ProcessingScreen.processing_complete
    worker_state,  \* the frame_processor worker as Textual reports it: state and result
    worker_pc,     \* where the thread of the worker is in _process_frames
    ui_call,       \* the call_from_thread call the UI thread has not run yet
    worker_events, \* how many Worker.StateChanged messages the UI thread has yet to handle
    widgets,       \* status-text, phase-text, progress-bar and the button label
    progress_delivery, \* the last _update_progress_ui call: its event and the flags it met
    app_result     \* the result app.exit was called with, if it was

selector_vars == <<frames, sel_call, sel_ret, sel_initial, sel_filled,
                   sel_batches>>
scorer_vars == <<extraction_result, sharpness_result, processing_cancelled,
                 paths, max_workers, chunk_size, cb_kind, sc_pc, scores,
                 processed_count, chunk_start, chunk_scores, completed_count,
                 task, progress_log, collect_order, failed_chunks,
                 submit_failed>>
form_vars == <<form, config_data, current_step, processing_screen, ui_event>>
validator_vars == <<validator, value, validation>>
selection_vars == <<current_method, current_parameters, preview_task,
                    asyncio_tasks, selected_count, selection_event>>
processing_vars == <<processing_complete, worker_state, worker_pc, ui_call,
                     worker_events, widgets, progress_delivery, app_result>>
screen_vars == <<current_method, current_parameters, preview_task,
                 asyncio_tasks, selected_count, selection_event,
                 processing_complete, worker_state, worker_pc, ui_call,
                 worker_events, widgets, progress_delivery, app_result>>
ui_vars == <<form, config_data, current_step, processing_screen, ui_event,
             validator, value, validation>>
vars == <<frames, sel_call, sel_ret, sel_initial, sel_filled, sel_batches,
          extraction_result, sharpness_result, processing_cancelled,
          paths, max_workers, chunk_size, cb_kind, sc_pc, scores,
          processed_count, chunk_start, chunk_scores, completed_count,
          task, progress_log, collect_order, failed_chunks, submit_failed,
          form, config_data, current_step, processing_screen, ui_event,
          validator, value, validation,
          current_method, current_parameters, preview_task, asyncio_tasks,
          selected_count, selection_event,
          processing_complete, worker_state, worker_pc, ui_call,
          worker_events, widgets, progress_delivery, app_result>>

(***************************************************************************)
(* Bounds of the model.                                                    *)
(***************************************************************************)
MaxFrames == 3
MaxIndex == 3
MaxScore == 2
MaxBuffer == 4
MaxPaths == 4
MaxWorkers == 2
MaxChunkSize == 3
MaxOutlierFrames == 5
MaxOutlierScore == 2
MaxLongFrames == 90
MaxSampleFrames == 100
MaxValueLen == 3
MaxShuffledScore == 1
MaxNearFrames == 4
MaxUlps == 1
MaxPreviewTasks == 3
MaxProgressTotal == 2

Min(a, b) == IF a <= b THEN a ELSE b
Max(a, b) == IF a >= b THEN a ELSE b
Abs(a) == IF a >= 0 THEN a ELSE 0 - a

(***************************************************************************)
(* FrameSelector                                                           *)
(***************************************************************************)

\* self.BEST_N_SHARPNESS_WEIGHT = 0.7, in tenths
BEST_N_SHARPNESS_WEIGHT == 7
\* params.get('n', 300), params.get('min_buffer', 3), params.get('batch_count', 5)
DEFAULT_N == 300
DEFAULT_MIN_BUFFER == 3
DEFAULT_BATCH_COUNT == 5

\* params.get(key, default)
params_get(params, key, default) ==
    IF key \in DOMAIN params THEN params[key] ELSE default

\* FrameData as the selector reads it: path (a file id), index, sharpness_score
FrameData(p, i, s) == [path |-> p, index |-> i, sharpness_score |-> s]

\* The frame lists the selector is run on: up to MaxFrames frames with
\* distinct paths, strictly increasing index values in 0..MaxIndex (equal to
\* the list positions or not) and any scores in 0..MaxScore.
FrameLists ==
    UNION {
        { [k \in 1..len |-> FrameData(k, idx[k], sc[k])] :
            idx \in { f \in [1..len -> 0..MaxIndex] :
                        \A a, b \in 1..len : a < b => f[a] < f[b] },
            sc \in [1..len -> 0..MaxScore] }
        : len \in 0..MaxFrames }

\* _frames_to_dict: one dict per frame, in list order
frames_to_dict(fs) ==
    [k \in 1..Len(fs) |->
        [path |-> fs[k].path, index |-> fs[k].index,
         sharpnessScore |-> fs[k].sharpness_score]]

\* _calculate_weighted_scores: sharpness_score * BEST_N_SHARPNESS_WEIGHT
calculate_weighted_scores(frames_dict) ==
    [k \in 1..Len(frames_dict) |->
        frames_dict[k].sharpnessScore * BEST_N_SHARPNESS_WEIGHT]

\* Python's sort with reverse=True is stable: of two pairs with equal keys the
\* one that came first stays first.  comes_before says whether pair j (a
\* <<dict, key>>) stands before pair k in the sorted list.
comes_before_tie_last_first(pairs, j, k) ==
    \/ pairs[j][2] > pairs[k][2]
    \/ pairs[j][2] = pairs[k][2] /\ j > k

comes_before(pairs, j, k) ==
    \/ pairs[j][2] > pairs[k][2]
    \/ pairs[j][2] = pairs[k][2] /\ j < k

\* sorted(pairs, key=lambda x: x[1], reverse=True): pair k goes to the place
\* behind all the pairs that come before it (place is the sequence of these
\* places)
sorted_by_score_desc(pairs) ==
    LET place == SubSeq([k \in 1..Len(pairs) |->
                            1 + Cardinality({j \in 1..Len(pairs) :
                                                comes_before(pairs, j, k)})],
                        1, Len(pairs))
    IN [r \in 1..Len(pairs) |->
            pairs[CHOOSE k \in 1..Len(pairs) : place[k] = r]]

\* _is_gap_sufficient with any() for all()
is_gap_sufficient_any(frame_index, selected_indices, min_gap) ==
    IF selected_indices = {} THEN TRUE
    ELSE \E selected_index \in selected_indices :
            Abs(frame_index - selected_index) >= min_gap

\* _is_gap_sufficient with > for >=
is_gap_sufficient_strict(frame_index, selected_indices, min_gap) ==
    IF selected_indices = {} THEN TRUE
    ELSE \A selected_index \in selected_indices :
            Abs(frame_index - selected_index) > min_gap

\* _is_gap_sufficient
is_gap_sufficient(frame_index, selected_indices, min_gap) ==
    IF selected_indices = {} THEN TRUE
    ELSE \A selected_index \in selected_indices :
            Abs(frame_index - selected_index) >= min_gap

\* the loop with "len(selected_frames) > n" as its break
RECURSIVE greedy_loop_late_break(_, _, _, _, _)
greedy_loop_late_break(candidates, k, n, gap, sel) ==
    IF k > Len(candidates) \/ Len(sel.frames) > n THEN sel
    ELSE LET frame_data == candidates[k][1]
             frame_index == frame_data.index
         IN IF is_gap_sufficient(frame_index, sel.indices, gap)
            THEN greedy_loop_late_break(candidates, k + 1, n, gap,
                     [frames |-> Append(sel.frames, frame_data),
                      indices |-> sel.indices \cup {frame_index}])
            ELSE greedy_loop_late_break(candidates, k + 1, n, gap, sel)

\* The for loops of both passes: candidates from position k on, in order;
\* sel is [frames |-> selected_frames, indices |-> selected_indices].
RECURSIVE greedy_loop(_, _, _, _, _)
greedy_loop(candidates, k, n, gap, sel) ==
    IF k > Len(candidates) \/ Len(sel.frames) >= n THEN sel
    ELSE LET frame_data == candidates[k][1]
             frame_index == frame_data.index
         IN IF is_gap_sufficient(frame_index, sel.indices, gap)
            THEN greedy_loop(candidates, k + 1, n, gap,
                     [frames |-> Append(sel.frames, frame_data),
                      indices |-> sel.indices \cup {frame_index}])
            ELSE greedy_loop(candidates, k + 1, n, gap, sel)

\* zip(frames_dict, weighted_scores)
zip_scores(frames_dict, weighted_scores) ==
    [k \in 1..Len(frames_dict) |-> <<frames_dict[k], weighted_scores[k]>>]

\* _select_initial_segments
select_initial_segments(frames_dict, weighted_scores, n, min_gap) ==
    IF n <= 0 \/ frames_dict = <<>>
    THEN [frames |-> <<>>, indices |-> {}]
    ELSE greedy_loop(sorted_by_score_desc(zip_scores(frames_dict, weighted_scores)),
                     1, n, min_gap, [frames |-> <<>>, indices |-> {}])

\* relaxed_gap = max(1, min_gap // 2)
relaxed_gap(min_gap) == Max(1, min_gap \div 2)

\* the (frame_data, weighted_scores[i]) pairs of the frames not yet selected
RECURSIVE unselected_upto(_, _, _, _)
unselected_upto(frames_dict, weighted_scores, selected_indices, k) ==
    IF k = 0 THEN <<>>
    ELSE LET rest == unselected_upto(frames_dict, weighted_scores,
                                     selected_indices, k - 1)
         IN IF frames_dict[k].index \notin selected_indices
            THEN Append(rest, <<frames_dict[k], weighted_scores[k]>>)
            ELSE rest

\* a second pass that adds nothing
fill_remaining_slots_skipped(frames_dict, weighted_scores, n, min_gap, sel) == sel

\* _fill_remaining_slots: gives selected_frames and selected_indices as the
\* source leaves them (it appends to both in place)
fill_remaining_slots(frames_dict, weighted_scores, n, min_gap, sel) ==
    IF n - Len(sel.frames) <= 0 THEN sel
    ELSE greedy_loop(
            sorted_by_score_desc(
                unselected_upto(frames_dict, weighted_scores, sel.indices,
                                Len(frames_dict))),
            1, n, relaxed_gap(min_gap), sel)

\* best_n up to the end of the first pass (n already clamped)
best_n_initial(fs, n, min_buffer) ==
    LET frames_dict == frames_to_dict(fs)
    IN select_initial_segments(frames_dict, calculate_weighted_scores(frames_dict),
                               Min(n, Len(fs)), min_buffer)

\* best_n up to the end of the with-block: both passes
best_n_filled(fs, n, min_buffer) ==
    LET frames_dict == frames_to_dict(fs)
        weighted_scores == calculate_weighted_scores(frames_dict)
        first == best_n_initial(fs, n, min_buffer)
    IN IF Len(first.frames) < Min(n, Len(fs))
       THEN fill_remaining_slots(frames_dict, weighted_scores, Min(n, Len(fs)),
                                 min_buffer, first)
       ELSE first

\* sorted(selected_frame_data, key=lambda f: f.index): stable, ascending
RECURSIVE insert_by_index(_, _)
insert_by_index(s, f) ==
    IF s = <<>> THEN <<f>>
    ELSE IF Head(s).index <= f.index
         THEN <<Head(s)>> \o insert_by_index(Tail(s), f)
         ELSE <<f>> \o s

RECURSIVE sort_by_index_upto(_, _)
sort_by_index_upto(fs, k) ==
    IF k = 0 THEN <<>>
    ELSE insert_by_index(sort_by_index_upto(fs, k - 1), fs[k])

sorted_by_index(fs) == sort_by_index_upto(fs, Len(fs))

\* What a call gives back
Returned(fs) == [kind |-> "list", frames |-> fs, count |-> 0]
ReturnedCount(c) == [kind |-> "count", frames |-> <<>>, count |-> c]
Raised(exc) == [kind |-> exc, frames |-> <<>>, count |-> 0]
NoReturn == [kind |-> "none", frames |-> <<>>, count |-> 0]

\* _select_best_n_frames.  "Convert back": original_frame =
\* frames[frame_dict['index']] reads the list at the frame's index VALUE; an
\* index value past the end of the list raises IndexError.
select_best_n_frames(fs, n, min_buffer) ==
    IF n <= 0 THEN Returned(<<>>)
    ELSE LET selected_frames == best_n_filled(fs, n, min_buffer).frames
         IN IF \E k \in 1..Len(selected_frames) :
                    selected_frames[k].index >= Len(fs)
            THEN Raised("IndexError")
            ELSE Returned(sorted_by_index(
                    [k \in 1..Len(selected_frames) |->
                        fs[selected_frames[k].index + 1]]))

\* max over positions lo..hi giving the last of several equal maxima
max_by_score_last(fs, lo, hi) ==
    CHOOSE p \in lo..hi :
        /\ \A q \in lo..hi : fs[q].sharpness_score <= fs[p].sharpness_score
        /\ \A q \in lo..hi :
              fs[q].sharpness_score = fs[p].sharpness_score => q <= p

\* max(batch, key=lambda f: f.sharpness_score) over positions lo..hi: Python's
\* max gives the first of several equal maxima
max_by_score(fs, lo, hi) ==
    CHOOSE p \in lo..hi :
        /\ \A q \in lo..hi : fs[q].sharpness_score <= fs[p].sharpness_score
        /\ \A q \in lo..hi :
              fs[q].sharpness_score = fs[p].sharpness_score => p <= q

\* batch i ends where it starts + batch_size, the last one too
batch_bounds_no_remainder(total, batch_count, i) ==
    LET batch_size == IF batch_count > 0 THEN total \div batch_count ELSE 1
    IN [start_idx |-> i * batch_size,
        end_idx |-> Min((i + 1) * batch_size, total)]

\* start_idx and end_idx of batch i (0-based, end exclusive) for the clamped
\* batch_count
batch_bounds(total, batch_count, i) ==
    LET batch_size == IF batch_count > 0 THEN total \div batch_count ELSE 1
    IN [start_idx |-> i * batch_size,
        end_idx |-> IF i = batch_count - 1 THEN total
                    ELSE Min((i + 1) * batch_size, total)]

\* start_idx and end_idx of the rounds of the loop of _select_batched_frames,
\* in order: range(batch_count) with the clamped batch_count
batches(total, batch_count) ==
    IF batch_count <= 0 THEN <<>>
    ELSE [k \in 1..Min(batch_count, total) |->
            batch_bounds(total, Min(batch_count, total), k - 1)]

\* the loop of _select_batched_frames over batches 0..i-1
RECURSIVE batched_upto(_, _, _)
batched_upto(fs, batch_count, i) ==
    IF i = 0 THEN <<>>
    ELSE LET b == batch_bounds(Len(fs), batch_count, i - 1)
             rest == batched_upto(fs, batch_count, i - 1)
         IN IF b.start_idx < b.end_idx
            THEN Append(rest, fs[max_by_score(fs, b.start_idx + 1, b.end_idx)])
            ELSE rest

\* _select_batched_frames without batch_count = min(batch_count, len(frames))
select_batched_frames_no_clamp(fs, batch_count) ==
    IF batch_count <= 0 THEN Returned(<<>>)
    ELSE Returned(batched_upto(fs, batch_count, batch_count))

\* _select_batched_frames
select_batched_frames(fs, batch_count) ==
    IF batch_count <= 0 THEN Returned(<<>>)
    ELSE Returned(batched_upto(fs, Min(batch_count, Len(fs)),
                               Min(batch_count, Len(fs))))

\* self.OUTLIER_MIN_NEIGHBORS, self.OUTLIER_THRESHOLD_DIVISOR
OUTLIER_MIN_NEIGHBORS == 3
OUTLIER_THRESHOLD_DIVISOR == 4
\* params.get('factor', 1.5) in hundredths, params.get('window_size', 15)
DEFAULT_FACTOR == 150
DEFAULT_WINDOW_SIZE == 15

\* int(x) of Python truncates towards zero; here for x = num / den, den > 0
int_trunc(num, den) ==
    IF num >= 0 THEN num \div den ELSE 0 - ((0 - num) \div den)

\* sensitivity = max(0, min(100, int((2.0 - factor) * 50))), factor in
\* hundredths: (2.0 - factor) * 50 = (200 - factor) / 2
factor_to_sensitivity(factor) ==
    Max(0, Min(100, int_trunc(200 - factor, 2)))

RECURSIVE sum_scores(_, _)
sum_scores(fs, positions) ==
    IF positions = {} THEN 0
    ELSE LET p == CHOOSE q \in positions : TRUE
         IN fs[p].sharpness_score + sum_scores(fs, positions \ {p})

\* _is_frame_outlier with percent_of_range >= threshold for > threshold
is_frame_outlier_at_threshold(index, fs, global_range, sensitivity, window_size) ==
    IF sensitivity <= 0 THEN FALSE
    ELSE IF sensitivity >= 100 THEN TRUE
    ELSE LET actual_window_size ==
                 IF window_size % 2 /= 0 THEN window_size ELSE window_size + 1
             half_window == actual_window_size \div 2
             window_start == Max(0, index - half_window)
             window_end == Min(Len(fs), index + half_window + 1)
             neighbor_indices ==
                 ((window_start + 1)..index) \cup ((index + 2)..window_end)
             L == Cardinality(neighbor_indices)
             S == sum_scores(fs, neighbor_indices)
             c == fs[index + 1].sharpness_score
         IN IF L < OUTLIER_MIN_NEIGHBORS THEN FALSE
            ELSE IF global_range = 0 THEN FALSE
            ELSE /\ c * L < S
                 /\ (S - c * L) * 100 * OUTLIER_THRESHOLD_DIVISOR
                        >= (100 - sensitivity) * global_range * L

\* _is_frame_outlier with threshold = sensitivity / 4 for (100 - sensitivity) / 4
is_frame_outlier_inverted(index, fs, global_range, sensitivity, window_size) ==
    IF sensitivity <= 0 THEN FALSE
    ELSE IF sensitivity >= 100 THEN TRUE
    ELSE LET actual_window_size ==
                 IF window_size % 2 /= 0 THEN window_size ELSE window_size + 1
             half_window == actual_window_size \div 2
             window_start == Max(0, index - half_window)
             window_end == Min(Len(fs), index + half_window + 1)
             neighbor_indices ==
                 ((window_start + 1)..index) \cup ((index + 2)..window_end)
             L == Cardinality(neighbor_indices)
             S == sum_scores(fs, neighbor_indices)
             c == fs[index + 1].sharpness_score
         IN IF L < OUTLIER_MIN_NEIGHBORS THEN FALSE
            ELSE IF global_range = 0 THEN FALSE
            ELSE /\ c * L < S
                 /\ (S - c * L) * 100 * OUTLIER_THRESHOLD_DIVISOR
                        > sensitivity * global_range * L

\* _is_frame_outlier without "if sensitivity >= 100: return True"
is_frame_outlier_no_full_sensitivity(index, fs, global_range, sensitivity, window_size) ==
    IF sensitivity <= 0 THEN FALSE
    ELSE LET actual_window_size ==
                 IF window_size % 2 /= 0 THEN window_size ELSE window_size + 1
             half_window == actual_window_size \div 2
             window_start == Max(0, index - half_window)
             window_end == Min(Len(fs), index + half_window + 1)
             neighbor_indices ==
                 ((window_start + 1)..index) \cup ((index + 2)..window_end)
             L == Cardinality(neighbor_indices)
             S == sum_scores(fs, neighbor_indices)
             c == fs[index + 1].sharpness_score
         IN IF L < OUTLIER_MIN_NEIGHBORS THEN FALSE
            ELSE IF global_range = 0 THEN FALSE
            ELSE /\ c * L < S
                 /\ (S - c * L) * 100 * OUTLIER_THRESHOLD_DIVISOR
                        > (100 - sensitivity) * global_range * L

\* _is_frame_outlier without the OUTLIER_MIN_NEIGHBORS check
is_frame_outlier_few_neighbors(index, fs, global_range, sensitivity, window_size) ==
    IF sensitivity <= 0 THEN FALSE
    ELSE IF sensitivity >= 100 THEN TRUE
    ELSE LET actual_window_size ==
                 IF window_size % 2 /= 0 THEN window_size ELSE window_size + 1
             half_window == actual_window_size \div 2
             window_start == Max(0, index - half_window)
             window_end == Min(Len(fs), index + half_window + 1)
             neighbor_indices ==
                 ((window_start + 1)..index) \cup ((index + 2)..window_end)
             L == Cardinality(neighbor_indices)
             S == sum_scores(fs, neighbor_indices)
             c == fs[index + 1].sharpness_score
         IN IF global_range = 0 THEN FALSE
            ELSE /\ c * L < S
                 /\ (S - c * L) * 100 * OUTLIER_THRESHOLD_DIVISOR
                        > (100 - sensitivity) * global_range * L

\* _is_frame_outlier with the whole window on each side of the frame
is_frame_outlier_window_each_side(index, fs, global_range, sensitivity, window_size) ==
    IF sensitivity <= 0 THEN FALSE
    ELSE IF sensitivity >= 100 THEN TRUE
    ELSE LET actual_window_size ==
                 IF window_size % 2 /= 0 THEN window_size ELSE window_size + 1
             half_window == actual_window_size
             window_start == Max(0, index - half_window)
             window_end == Min(Len(fs), index + half_window + 1)
             neighbor_indices ==
                 ((window_start + 1)..index) \cup ((index + 2)..window_end)
             L == Cardinality(neighbor_indices)
             S == sum_scores(fs, neighbor_indices)
             c == fs[index + 1].sharpness_score
         IN IF L < OUTLIER_MIN_NEIGHBORS THEN FALSE
            ELSE IF global_range = 0 THEN FALSE
            ELSE /\ c * L < S
                 /\ (S - c * L) * 100 * OUTLIER_THRESHOLD_DIVISOR
                        > (100 - sensitivity) * global_range * L

\* _is_frame_outlier for the frame at 0-based position index.  The float
\* comparisons are taken exactly: with L neighbours of sum S, score c and
\* range R > 0, c < S/L is c*L < S, and (S/L - c)/R*100 > (100 - sens)/4 is
\* (S - c*L) * 100 * 4 > (100 - sens) * R * L.
is_frame_outlier(index, fs, global_range, sensitivity, window_size) ==
    IF sensitivity <= 0 THEN FALSE
    ELSE IF sensitivity >= 100 THEN TRUE
    ELSE LET actual_window_size ==
                 IF window_size % 2 /= 0 THEN window_size ELSE window_size + 1
             half_window == actual_window_size \div 2
             window_start == Max(0, index - half_window)
             window_end == Min(Len(fs), index + half_window + 1)
             \* 1-based positions of the neighbours
             neighbor_indices ==
                 ((window_start + 1)..index) \cup ((index + 2)..window_end)
             L == Cardinality(neighbor_indices)
             S == sum_scores(fs, neighbor_indices)
             c == fs[index + 1].sharpness_score
         IN IF L < OUTLIER_MIN_NEIGHBORS THEN FALSE
            ELSE IF global_range = 0 THEN FALSE
            ELSE /\ c * L < S
                 /\ (S - c * L) * 100 * OUTLIER_THRESHOLD_DIVISOR
                        > (100 - sensitivity) * global_range * L

RECURSIVE keep_non_outliers(_, _, _, _, _)
keep_non_outliers(fs, global_range, sensitivity, window_size, k) ==
    IF k = 0 THEN <<>>
    ELSE LET rest == keep_non_outliers(fs, global_range, sensitivity,
                                       window_size, k - 1)
         IN IF is_frame_outlier(k - 1, fs, global_range, sensitivity, window_size)
            THEN rest
            ELSE Append(rest, fs[k])

\* _select_outlier_removal_frames
select_outlier_removal_frames(fs, factor, window_size) ==
    IF fs = <<>> THEN Returned(<<>>)
    ELSE LET sensitivity == factor_to_sensitivity(factor)
             all_scores == {fs[k].sharpness_score : k \in 1..Len(fs)}
             global_min == CHOOSE m \in all_scores : \A x \in all_scores : m <= x
             global_max == CHOOSE m \in all_scores : \A x \in all_scores : m >= x
         IN Returned(keep_non_outliers(fs, global_max - global_min, sensitivity,
                                       window_size, Len(fs)))

\* The double 1.0 - removal_rate is not the decimal kept/100 (kept = 100 -
\* rate in hundredths): it lies d / 2^53 below it, where d in fifths is
\*   1.0 - 0.05 = 0x1.e666666666666p-1 :  2   1.0 - 0.10 = 0x1.ccccccccccccdp-1 : -1
\*   1.0 - 0.20 = 0x1.999999999999ap-1 : -2   1.0 - 0.30 = 0x1.6666666666666p-1 :  2
double_shortfall_fifths(kept) ==
    CASE kept = 95 -> 2
      [] kept = 90 -> 0 - 1
      [] kept = 80 -> 0 - 2
      [] kept = 70 -> 2

\* the least power of two that is >= k, for k >= 1
pow2_at_least(k) ==
    CHOOSE p \in {2 ^ i : i \in 0..20} : p >= k /\ p < 2 * k

\* int(len * (1.0 - removal_rate)) as IEEE doubles compute it.  The product
\* of len and the double is len * d / 2^53 away from the decimal value
\* len * kept / 100.  That only matters when the decimal value is an integer K
\* and the double lies below (d > 0): the product is then just under K, and it
\* rounds (to nearest, ties to even) up to K iff the gap is at most half the
\* spacing of the doubles under K, i.e. len * d / 5 <= pow2_at_least(K) / 2;
\* otherwise int() truncates it to K - 1.
int_of_double_product(len, kept) ==
    LET K == (len * kept) \div 100
        d == double_shortfall_fifths(kept)
    IN IF /\ (len * kept) % 100 = 0
          /\ d > 0
          /\ 2 * len * d > 5 * pow2_at_least(K)
       THEN K - 1
       ELSE K

\* _preview_outlier_removal_count: int(len(frames) * (1.0 - removal_rate)),
\* the rate in hundredths
preview_outlier_removal_count(fs, factor, window_size) ==
    IF fs = <<>> THEN 0
    ELSE LET removal_rate == IF factor >= 200 THEN 5
                             ELSE IF factor >= 150 THEN 10
                             ELSE IF factor >= 100 THEN 20
                             ELSE 30
             estimated_selected ==
                 int_of_double_product(Len(fs), 100 - removal_rate)
         IN Max(1, estimated_selected)

\* select_frames without the empty-input return
select_frames_no_empty_check(fs, method, params) ==
    IF method = "best_n"
    THEN select_best_n_frames(fs, params_get(params, "n", DEFAULT_N),
                              params_get(params, "min_buffer", DEFAULT_MIN_BUFFER))
    ELSE IF method = "batched"
    THEN select_batched_frames(fs, params_get(params, "batch_count",
                                              DEFAULT_BATCH_COUNT))
    ELSE IF method = "outlier_removal"
    THEN select_outlier_removal_frames(fs,
             params_get(params, "factor", DEFAULT_FACTOR),
             params_get(params, "window_size", DEFAULT_WINDOW_SIZE))
    ELSE Raised("ValueError")

\* FrameSelector.select_frames
select_frames(fs, method, params) ==
    IF fs = <<>> THEN Returned(<<>>)
    ELSE select_frames_no_empty_check(fs, method, params)

\* preview_selection without the empty-input return
preview_selection_no_empty_check(fs, method, params) ==
    IF method = "best_n"
    THEN ReturnedCount(Min(params_get(params, "n", DEFAULT_N), Len(fs)))
    ELSE IF method = "batched"
    THEN ReturnedCount(Min(params_get(params, "batch_count", DEFAULT_BATCH_COUNT),
                           Len(fs)))
    ELSE IF method = "outlier_removal"
    THEN ReturnedCount(preview_outlier_removal_count(fs,
             params_get(params, "factor", DEFAULT_FACTOR),
             params_get(params, "window_size", DEFAULT_WINDOW_SIZE)))
    ELSE Raised("ValueError")

\* FrameSelector.preview_selection
preview_selection(fs, method, params) ==
    IF fs = <<>> THEN ReturnedCount(0)
    ELSE IF method = "best_n"
    THEN ReturnedCount(Min(params_get(params, "n", DEFAULT_N), Len(fs)))
    ELSE IF method = "batched"
    THEN ReturnedCount(Min(params_get(params, "batch_count", DEFAULT_BATCH_COUNT),
                           Len(fs)))
    ELSE IF method = "outlier_removal"
    THEN ReturnedCount(preview_outlier_removal_count(fs,
             params_get(params, "factor", DEFAULT_FACTOR),
             params_get(params, "window_size", DEFAULT_WINDOW_SIZE)))
    ELSE Raised("ValueError")

(***************************************************************************)
(* The selector as a state machine: a frame list is given, then one call   *)
(* of select_frames or preview_selection is made on it.                    *)
(***************************************************************************)

\* The **params of a call: every subset of a method's parameters may be left
\* out (params.get then takes the default).
OptionalParams(keys, values) ==
    UNION { [ks -> values] : ks \in SUBSET keys }

BestNParams ==
    { p \in OptionalParams({"n", "min_buffer"}, (-1)..Max(MaxFrames + 1, MaxBuffer)) :
        /\ "min_buffer" \in DOMAIN p => p["min_buffer"] \in 0..MaxBuffer
        /\ "n" \in DOMAIN p => p["n"] \in (-1)..(MaxFrames + 1) }

BatchedParams == OptionalParams({"batch_count"}, (-1)..(MaxFrames + 1))

\* factor in hundredths; on these the float expression (2.0 - factor) * 50
\* truncates to the same integer as the exact one
Factors == {0, 50, 100, 149, 150, 151, 200, 250}
WindowSizes == {3, 4, 7}

OutlierParams ==
    { p \in OptionalParams({"factor", "window_size"}, Factors \cup WindowSizes) :
        /\ "factor" \in DOMAIN p => p["factor"] \in Factors
        /\ "window_size" \in DOMAIN p => p["window_size"] \in WindowSizes }

MethodParams(method) ==
    IF method = "best_n" THEN BestNParams
    ELSE IF method = "batched" THEN BatchedParams
    ELSE IF method = "outlier_removal" THEN OutlierParams
    ELSE {<<>>}

Methods == {"best_n", "batched", "outlier_removal", "top_k"}

NoCall == [op |-> "none", method |-> "", params |-> <<>>]
NoSelection == [frames |-> <<>>, indices |-> {}]

\* no ExtractionResult (there is no call of calculate_sharpness, or it has
\* not returned)
NoResult == [kind |-> "none"]

\* Python's None
None == "None"

\* no configuration screen and no validator in the behaviour
NoForm == "none"
EmptyDict == [key \in {} |-> None]
NoEvent == [op |-> "none", valid |-> FALSE, step |-> 0, data |-> EmptyDict,
            config |-> EmptyDict]
NoScreen == [pushed |-> FALSE, config |-> EmptyDict]
\* Optional[int]: <<>> for None, <<v>> for the integer v
NoValidator == [min_value |-> <<>>, max_value |-> <<>>]
NoValidation == [is_valid |-> FALSE, failure |-> "none"]

FormIdle ==
    /\ form = NoForm
    /\ config_data = EmptyDict
    /\ current_step = 0
    /\ processing_screen = NoScreen
    /\ ui_event = NoEvent

ValidatorIdle ==
    /\ validator = NoValidator
    /\ value = <<>>
    /\ validation = NoValidation

UiIdle == FormIdle /\ ValidatorIdle

\* no selection screen and no processing screen in the behaviour
NoPreview == [method |-> "none", params |-> EmptyDict]
NoSelectionEvent == [op |-> "none", method |-> "none"]
NoUiCall == [fn |-> "none", phase |-> "", current |-> 0, total |-> 0,
             total_progress |-> <<0, 1>>]
NoWorker == [state |-> "none", result |-> "None"]
NoWidgets == [status_text |-> "", phase_text |-> <<>>, progress |-> <<0, 1>>,
              bar_displayed |-> TRUE, button_label |-> "Cancel"]
NoDelivery == [phase |-> "", complete |-> FALSE, cancelled |-> FALSE]

SelectionIdle ==
    /\ current_method = "none"
    /\ current_parameters = EmptyDict
    /\ preview_task = 0
    /\ asyncio_tasks = <<>>
    /\ selected_count = NoPreview
    /\ selection_event = NoSelectionEvent

ProcessingIdle ==
    /\ processing_complete = FALSE
    /\ worker_state = NoWorker
    /\ worker_pc = "none"
    /\ ui_call = NoUiCall
    /\ worker_events = 0
    /\ widgets = NoWidgets
    /\ progress_delivery = NoDelivery
    /\ app_result = "none"

ScreensIdle == SelectionIdle /\ ProcessingIdle

ScorerIdle ==
    /\ extraction_result = NoResult
    /\ sharpness_result = NoResult
    /\ processing_cancelled = FALSE
    /\ paths = <<>>
    /\ max_workers = 1
    /\ chunk_size = 1
    /\ cb_kind = "none"
    /\ sc_pc = "idle"
    /\ scores = <<>>
    /\ processed_count = 0
    /\ chunk_start = 0
    /\ chunk_scores = <<>>
    /\ completed_count = 0
    /\ task = <<>>
    /\ progress_log = <<>>
    /\ collect_order = <<>>
    /\ failed_chunks = {}
    /\ submit_failed = {}

SelectorInit ==
    /\ frames \in FrameLists
    /\ sel_call = NoCall
    /\ sel_ret = NoReturn
    /\ sel_initial = NoSelection
    /\ sel_filled = NoSelection
    /\ sel_batches = <<>>
    /\ ScorerIdle
    /\ UiIdle
    /\ ScreensIdle

\* select_frames(frames, method, **params).  sel_initial and sel_filled keep
\* what the two passes of best_n selected, when they ran.
SelectFrames(method, params) ==
    /\ sel_call.op = "none"
    /\ sel_call' = [op |-> "select_frames", method |-> method, params |-> params]
    /\ sel_ret' = select_frames(frames, method, params)
    /\ LET ran == /\ frames /= <<>>
                  /\ method = "best_n"
                  /\ params_get(params, "n", DEFAULT_N) > 0
           n == params_get(params, "n", DEFAULT_N)
           min_buffer == params_get(params, "min_buffer", DEFAULT_MIN_BUFFER)
       IN /\ sel_initial' = IF ran THEN best_n_initial(frames, n, min_buffer)
                            ELSE NoSelection
          /\ sel_filled' = IF ran THEN best_n_filled(frames, n, min_buffer)
                           ELSE NoSelection
    /\ sel_batches' =
          IF frames /= <<>> /\ method = "batched"
          THEN batches(Len(frames),
                       params_get(params, "batch_count", DEFAULT_BATCH_COUNT))
          ELSE <<>>
    /\ UNCHANGED <<frames>>
    /\ UNCHANGED <<scorer_vars, ui_vars, screen_vars>>

\* preview_selection(frames, method, **params)
PreviewSelection(method, params) ==
    /\ sel_call.op = "none"
    /\ sel_call' = [op |-> "preview_selection", method |-> method, params |-> params]
    /\ sel_ret' = preview_selection(frames, method, params)
    /\ UNCHANGED <<frames, sel_initial, sel_filled, sel_batches>>
    /\ UNCHANGED <<scorer_vars, ui_vars, screen_vars>>

SelectorNext ==
    \E method \in Methods : \E params \in MethodParams(method) :
        \/ SelectFrames(method, params)
        \/ PreviewSelection(method, params)

SelectorSpec == SelectorInit /\ [][SelectorNext]_vars

\* best_n on frame lists whose index values are the list positions in any
\* order
ShuffledFrameLists ==
    UNION {
        { [k \in 1..len |-> FrameData(k, idx[k], sc[k])] :
            idx \in { f \in [1..len -> 0..(len - 1)] :
                        \A a, b \in 1..len : a /= b => f[a] /= f[b] },
            sc \in [1..len -> 0..MaxShuffledScore] }
        : len \in 0..MaxFrames }

ShuffledInit ==
    /\ frames \in ShuffledFrameLists
    /\ sel_call = NoCall
    /\ sel_ret = NoReturn
    /\ sel_initial = NoSelection
    /\ sel_filled = NoSelection
    /\ sel_batches = <<>>
    /\ ScorerIdle
    /\ UiIdle
    /\ ScreensIdle

ShuffledNext ==
    \E params \in BestNParams :
        \/ SelectFrames("best_n", params)
        \/ PreviewSelection("best_n", params)

ShuffledSpec == ShuffledInit /\ [][ShuffledNext]_vars

(***************************************************************************)
(* outlier_removal needs longer lists than best_n and batched do: a frame  *)
(* is only judged when it has OUTLIER_MIN_NEIGHBORS neighbours.  Frame     *)
(* lists here have index = list position.                                  *)
(***************************************************************************)

\* every list of up to MaxOutlierFrames frames with scores in 0..MaxOutlierScore
OutlierFrameLists ==
    UNION {
        { [k \in 1..len |-> FrameData(k, k - 1, sc[k])] :
            sc \in [1..len -> 0..MaxOutlierScore] }
        : len \in 0..MaxOutlierFrames }

OutlierInit ==
    /\ frames \in OutlierFrameLists
    /\ sel_call = NoCall
    /\ sel_ret = NoReturn
    /\ sel_initial = NoSelection
    /\ sel_filled = NoSelection
    /\ sel_batches = <<>>
    /\ ScorerIdle
    /\ UiIdle
    /\ ScreensIdle

OutlierNext ==
    \E params \in OutlierParams :
        \/ SelectFrames("outlier_removal", params)
        \/ PreviewSelection("outlier_removal", params)

OutlierSpec == OutlierInit /\ [][OutlierNext]_vars

(***************************************************************************)
(* outlier_removal on scores that are doubles a few units in the last      *)
(* place apart.  The double 0.1 is M * 2^-56 with M = 0x1999999999999A; in *)
(* this section a frame's sharpness_score k stands for the double          *)
(* (M + k) * 2^-56, and a sum of c such scores is written c * M + t, of    *)
(* which only t is kept.                                                   *)
(***************************************************************************)

\* the spacing, in units of 2^-56, of the doubles around c * M + t:
\* M is 1.6 * 2^52, so c * M lies in [2^52, 2^53) for c = 1, [2^53, 2^54)
\* for c = 2, [2^54, 2^55) for c = 3, 4, and 5 * M = 2^55 + 2
double_spacing(c, t) ==
    IF c <= 1 THEN 1
    ELSE IF c = 2 THEN 2
    ELSE IF c <= 4 THEN 4
    ELSE IF c = 5 /\ t < 0 - 2 THEN 4
    ELSE 8

\* c * M + t rounded to a double (to nearest, ties to the even significand),
\* as the offset from c * M.  The low byte of M is 0x9A = 154, which decides
\* the residue of c * M + t modulo twice the spacing.
round_double(c, t) ==
    LET u == double_spacing(c, t)
        low == (c * 154 + t + 1024 * u) % (2 * u)
        rem == low % u
    IN IF rem = 0 THEN t
       ELSE IF 2 * rem < u THEN t - rem
       ELSE IF 2 * rem > u THEN t + (u - rem)
       ELSE IF low = rem THEN t - rem
       ELSE t + (u - rem)

\* sum(neighbor_scores): the scores at the 1-based positions first..last
\* other than skip, added one by one from the left, each partial sum rounded;
\* the result is <<c, t>> for the double c * M + t
RECURSIVE double_sum(_, _, _, _)
double_sum(fs, first, last, skip) ==
    IF last < first THEN <<0, 0>>
    ELSE LET rest == double_sum(fs, first, last - 1, skip)
         IN IF last = skip THEN rest
            ELSE <<rest[1] + 1,
                   round_double(rest[1] + 1, rest[2] + fs[last].sharpness_score)>>

\* sum / len: (c * M + t) / c = M + t / c rounded to a double (spacing 1
\* around M, and M is even), as the offset from M
double_mean(c, t) ==
    LET q == (t + 1024 * c) \div c - 1024
        r == t - q * c
    IN IF 2 * r < c THEN q
       ELSE IF 2 * r > c THEN q + 1
       ELSE IF q % 2 = 0 THEN q
       ELSE q + 1

\* _is_frame_outlier on such scores.  current_score < window_avg compares
\* the rounded mean; window_avg - current_score and global_range are
\* differences of neighbouring doubles and exact, d and R units; the
\* quotient d / R * 100 is compared with (100 - sensitivity) / 4 as
\* 400 * d > (100 - sensitivity) * R, away from equality on these values.
is_frame_outlier_doubles(index, fs, global_range, sensitivity, window_size) ==
    IF sensitivity <= 0 THEN FALSE
    ELSE IF sensitivity >= 100 THEN TRUE
    ELSE LET actual_window_size ==
                 IF window_size % 2 /= 0 THEN window_size ELSE window_size + 1
             half_window == actual_window_size \div 2
             window_start == Max(0, index - half_window)
             window_end == Min(Len(fs), index + half_window + 1)
             total == double_sum(fs, window_start + 1, window_end, index + 1)
             L == total[1]
             window_avg == double_mean(L, total[2])
             current_score == fs[index + 1].sharpness_score
         IN IF L < OUTLIER_MIN_NEIGHBORS THEN FALSE
            ELSE IF global_range = 0 THEN FALSE
            ELSE /\ current_score < window_avg
                 /\ (window_avg - current_score) * 100 * OUTLIER_THRESHOLD_DIVISOR
                        > (100 - sensitivity) * global_range

RECURSIVE keep_non_outliers_doubles(_, _, _, _, _)
keep_non_outliers_doubles(fs, global_range, sensitivity, window_size, k) ==
    IF k = 0 THEN <<>>
    ELSE LET rest == keep_non_outliers_doubles(fs, global_range, sensitivity,
                                               window_size, k - 1)
         IN IF is_frame_outlier_doubles(k - 1, fs, global_range, sensitivity,
                                        window_size)
            THEN rest
            ELSE Append(rest, fs[k])

\* _select_outlier_removal_frames on such scores
select_outlier_removal_frames_doubles(fs, factor, window_size) ==
    IF fs = <<>> THEN Returned(<<>>)
    ELSE LET sensitivity == factor_to_sensitivity(factor)
             all_scores == {fs[k].sharpness_score : k \in 1..Len(fs)}
             global_min == CHOOSE m \in all_scores : \A x \in all_scores : m <= x
             global_max == CHOOSE m \in all_scores : \A x \in all_scores : m >= x
         IN Returned(keep_non_outliers_doubles(fs, global_max - global_min,
                                               sensitivity, window_size, Len(fs)))

\* select_frames(frames, 'outlier_removal', **params) on such scores
SelectFramesDoubles(params) ==
    /\ sel_call.op = "none"
    /\ sel_call' = [op |-> "select_frames", method |-> "outlier_removal",
                    params |-> params]
    /\ sel_ret' = select_outlier_removal_frames_doubles(
                      frames,
                      params_get(params, "factor", DEFAULT_FACTOR),
                      params_get(params, "window_size", DEFAULT_WINDOW_SIZE))
    /\ UNCHANGED <<frames, sel_initial, sel_filled, sel_batches>>
    /\ UNCHANGED <<scorer_vars, ui_vars, screen_vars>>

\* every list of up to MaxNearFrames frames whose scores are at most MaxUlps
\* units in the last place away from 0.1
NearEqualFrameLists ==
    UNION {
        { [k \in 1..len |-> FrameData(k, k - 1, sc[k])] :
            sc \in [1..len -> (0 - MaxUlps)..MaxUlps] }
        : len \in 0..MaxNearFrames }

NearEqualInit ==
    /\ frames \in NearEqualFrameLists
    /\ sel_call = NoCall
    /\ sel_ret = NoReturn
    /\ sel_initial = NoSelection
    /\ sel_filled = NoSelection
    /\ sel_batches = <<>>
    /\ ScorerIdle
    /\ UiIdle
    /\ ScreensIdle

NearEqualNext ==
    \E params \in OutlierParams : SelectFramesDoubles(params)

NearEqualSpec == NearEqualInit /\ [][NearEqualNext]_vars

(***************************************************************************)
(* The preview of outlier_removal computes int(len * (1.0 - rate)) in      *)
(* doubles, which shows from 90 frames on: the preview is run on long      *)
(* lists too.                                                              *)
(***************************************************************************)

\* lists of up to MaxLongFrames frames: all scores 0 (m = 0), or the scores
\* 1, 2, .., MaxOutlierScore, 0, 1, .. repeating (m = 1)
LongFrameLists ==
    { [k \in 1..len |-> FrameData(k, k - 1, (k * m) % (MaxOutlierScore + 1))] :
        len \in 0..MaxLongFrames, m \in 0..1 }

PreviewInit ==
    /\ frames \in LongFrameLists
    /\ sel_call = NoCall
    /\ sel_ret = NoReturn
    /\ sel_initial = NoSelection
    /\ sel_filled = NoSelection
    /\ sel_batches = <<>>
    /\ ScorerIdle
    /\ UiIdle
    /\ ScreensIdle

PreviewNext ==
    \E params \in OutlierParams : PreviewSelection("outlier_removal", params)

PreviewSpec == PreviewInit /\ [][PreviewNext]_vars

(***************************************************************************)
(* best_n on the frames of the test fixture sample_frames_data: scores in  *)
(* three bands, rising with the index.                                     *)
(***************************************************************************)

\* the score of frame i of sample_frames_data: 50 + i below 20, 100 + i below
\* 80, 200 + i from 80 on
sample_score(i) ==
    IF i < 20 THEN 50 + i
    ELSE IF i < 80 THEN 100 + i
    ELSE 200 + i

\* sample_frames_data, with total frames (the fixture has 100)
sample_frames_data(total) ==
    [k \in 1..total |-> FrameData(k, k - 1, sample_score(k - 1))]

SampleFrameLists ==
    { sample_frames_data(total) :
        total \in (MaxSampleFrames - 4)..MaxSampleFrames }

\* n and min_buffer around the n = 10, min_buffer = 3 of the fixture's tests
SampleParams ==
    { [n |-> n, min_buffer |-> b] : n \in 8..12, b \in 2..4 }

SampleInit ==
    /\ frames \in SampleFrameLists
    /\ sel_call = NoCall
    /\ sel_ret = NoReturn
    /\ sel_initial = NoSelection
    /\ sel_filled = NoSelection
    /\ sel_batches = <<>>
    /\ ScorerIdle
    /\ UiIdle
    /\ ScreensIdle

SampleNext ==
    \E params \in SampleParams :
        \/ SelectFrames("best_n", params)
        \/ PreviewSelection("best_n", params)

SampleSpec == SampleInit /\ [][SampleNext]_vars

(***************************************************************************)
(* SharpnessAnalyzer                                                       *)
(***************************************************************************)

\* A frame path: the file it names and whether cv2.imread can read it.
\* Frame files are distinct.
PathLists ==
    UNION { [1..len -> BOOLEAN] : len \in 0..MaxPaths }

FramePath(k, readable) == [file |-> k, readable |-> readable]

\* sharpness_score of a frame that has not been scored (None)
NoScore == 0 - 1

\* The FrameData at 1-based position k of an extraction: two frames per
\* source video, not scored yet
ExtractedFrame(k, readable) ==
    [path |-> FramePath(k, readable),
     index |-> k - 1,
     sharpness_score |-> NoScore,
     source_video |-> (k + 1) \div 2,
     source_index |-> (k - 1) % 2,
     output_name |-> 100 * ((k + 1) \div 2) + k]

InputTypes == {"video", "directory"}

\* ExtractionResult(frames, metadata, temp_dir, input_type)
ExtractionResult(fs, metadata, temp_dir, input_type) ==
    [kind |-> "ExtractionResult", frames |-> fs, metadata |-> metadata,
     temp_dir |-> temp_dir, input_type |-> input_type]

\* the ExtractionResults calculate_sharpness is run on
ExtractionResults ==
    { ExtractionResult([k \in 1..Len(pl) |-> ExtractedFrame(k, pl[k])],
                       [fps |-> 30, source_type |-> it],
                       "/tmp/sharp_frames_test", it) :
        pl \in PathLists, it \in InputTypes }

\* an update that hands back the frame with its score set, under the output
\* name of the frame's position in the video
update_frame_renamed(frame, sharpness_score) ==
    [path |-> frame.path,
     index |-> frame.index,
     sharpness_score |-> sharpness_score,
     source_video |-> frame.source_video,
     source_index |-> frame.source_index,
     output_name |-> frame.source_index]

\* _update_frame_with_sharpness: a new FrameData
update_frame_with_sharpness(frame, sharpness_score) ==
    [path |-> frame.path,
     index |-> frame.index,
     sharpness_score |-> sharpness_score,
     source_video |-> frame.source_video,
     source_index |-> frame.source_index,
     output_name |-> frame.output_name]

\* calculate_sharpness after the scores are there: one updated frame per
\* pair of zip(extraction_result.frames, sharpness_scores), and a new
\* ExtractionResult around them
updated_extraction_result(er, sharpness_scores) ==
    ExtractionResult(
        [k \in 1..Min(Len(er.frames), Len(sharpness_scores)) |->
            update_frame_with_sharpness(er.frames[k], sharpness_scores[k])],
        er.metadata, er.temp_dir, er.input_type)

\* _calculate_laplacian_variance of the image in a file: some positive number
\* that differs from file to file
calculate_laplacian_variance(file) == ((file * 3) % 7) + 1

\* _calculate_single_frame_sharpness: the score, or ImageProcessingError
calculate_single_frame_sharpness(path) ==
    IF path.readable
    THEN [raised |-> FALSE, score |-> calculate_laplacian_variance(path.file)]
    ELSE [raised |-> TRUE, score |-> 0]

\* the try of the collection loop without its except: the exception of
\* future.result() leaves the loop
future_result_uncaught(path) ==
    LET r == calculate_single_frame_sharpness(path)
    IN [score |-> r.score, escapes |-> r.raised]

\* try: score = future.result(); scores[idx] = score
\* except Exception: scores[idx] = 0.0
future_result_or_default(path) ==
    LET r == calculate_single_frame_sharpness(path)
    IN IF r.raised THEN [score |-> 0, escapes |-> FALSE]
       ELSE [score |-> r.score, escapes |-> FALSE]

\* The progress callbacks the scorer runs with:
\*   "none"     _calculate_sharpness_parallel called with progress_callback=None
\*   "record"   calculate_sharpness with a caller's (phase, current, total,
\*              description) callback that records the call
\*   "fallback" calculate_sharpness with progress_callback=None, which runs the
\*              callback of _create_progress_callback
CallbackKinds == {"none", "record", "fallback"}

\* _create_progress_callback gives progress_callback(increment, total): two
\* parameters.  chunk_progress_callback calls it with four arguments, which
\* raises TypeError.  A caller's four-argument callback takes the call.
callback_raises(kind) == kind = "fallback"

\* chunk_end = min(chunk_start + chunk_size, total_frames); the chunk's length
chunk_len(start) == Min(start + chunk_size, Len(paths)) - start

\* num_workers = min(self.max_workers, len(frame_paths)) if frame_paths else 1
num_workers(n_paths) ==
    IF n_paths > 0 THEN Min(max_workers, n_paths) ELSE 1

\* frame_paths = [frame.path for frame in extraction_result.frames]
frame_paths(er) == [k \in 1..Len(er.frames) |-> er.frames[k].path]

ScorerInit ==
    /\ extraction_result \in ExtractionResults
    /\ sharpness_result = NoResult
    /\ processing_cancelled = FALSE
    /\ paths = frame_paths(extraction_result)
    /\ max_workers \in 1..MaxWorkers
    /\ chunk_size \in 1..MaxChunkSize
    /\ cb_kind \in CallbackKinds
    /\ sc_pc = "idle"
    /\ scores = <<>>
    /\ processed_count = 0
    /\ chunk_start = 0
    /\ chunk_scores = <<>>
    /\ completed_count = 0
    /\ task = <<>>
    /\ progress_log = <<>>
    /\ collect_order = <<>>
    /\ failed_chunks = {}
    /\ submit_failed = {}
    /\ frames = <<>>
    /\ sel_call = NoCall
    /\ sel_ret = NoReturn
    /\ sel_initial = NoSelection
    /\ sel_filled = NoSelection
    /\ sel_batches = <<>>
    /\ UiIdle
    /\ ScreensIdle

\* calculate_sharpness up to the call of _calculate_sharpness_parallel (or that
\* call itself for "none"): no frames, return at once; a caller's callback is
\* told ("sharpness", 0, N) first.
StartScoring ==
    /\ sc_pc = "idle"
    /\ IF cb_kind /= "none" /\ paths = <<>>
       THEN /\ sc_pc' = "done"
            /\ sharpness_result' = extraction_result
            /\ UNCHANGED progress_log
       ELSE /\ sc_pc' = "loop"
            /\ progress_log' = IF cb_kind = "record"
                               THEN Append(progress_log, <<0, Len(paths)>>)
                               ELSE progress_log
            /\ UNCHANGED sharpness_result
    /\ UNCHANGED <<processing_cancelled, extraction_result,
                   paths, max_workers, chunk_size, cb_kind, scores,
                   processed_count, chunk_start, chunk_scores, completed_count,
                   task, collect_order, failed_chunks, submit_failed>>
    /\ UNCHANGED <<selector_vars, ui_vars, screen_vars>>

\* One round of "for chunk_start in range(0, total_frames, chunk_size)" up to
\* the end of the submit loop of _process_chunk_parallel: scores = [0.0] * len,
\* completed_count = 0, every path of the chunk submitted.
SubmitChunk ==
    /\ sc_pc = "loop"
    /\ chunk_start < Len(paths)
    /\ chunk_scores' = [k \in 1..chunk_len(chunk_start) |-> 0]
    /\ completed_count' = 0
    /\ task' = [k \in 1..chunk_len(chunk_start) |-> "queued"]
    /\ sc_pc' = "collect"
    /\ UNCHANGED <<processing_cancelled, extraction_result, sharpness_result,
                   paths, max_workers, chunk_size, cb_kind, scores,
                   processed_count, chunk_start, progress_log, collect_order,
                   failed_chunks, submit_failed>>
    /\ UNCHANGED <<selector_vars, ui_vars, screen_vars>>

\* The same, with executor.submit raising (RuntimeError: can't start new
\* thread) once k paths of the chunk are submitted: the exception leaves the
\* with-block, whose exit waits for the submitted tasks.
SubmitChunkRaises(k) ==
    /\ sc_pc = "loop"
    /\ chunk_start < Len(paths)
    /\ k \in 0..(chunk_len(chunk_start) - 1)
    /\ chunk_scores' = [j \in 1..chunk_len(chunk_start) |-> 0]
    /\ completed_count' = 0
    /\ task' = [j \in 1..chunk_len(chunk_start) |->
                   IF j <= k THEN "queued" ELSE "unsubmitted"]
    /\ sc_pc' = "failing"
    /\ failed_chunks' = failed_chunks \cup {chunk_start}
    /\ submit_failed' = submit_failed \cup {chunk_start}
    /\ UNCHANGED <<processing_cancelled, extraction_result, sharpness_result,
                   paths, max_workers, chunk_size, cb_kind, scores,
                   processed_count, chunk_start, progress_log, collect_order>>
    /\ UNCHANGED <<selector_vars, ui_vars, screen_vars>>

Running == {k \in 1..Len(task) : task[k] = "running"}

\* A pool thread takes the next task of the work queue (first submitted, first
\* taken); the pool has num_workers threads.
WorkerStart(k) ==
    /\ sc_pc \in {"collect", "failing"}
    /\ k \in 1..Len(task)
    /\ task[k] = "queued"
    /\ \A j \in 1..(k - 1) : task[j] /= "queued"
    /\ Cardinality(Running) < num_workers(Len(task))
    /\ task' = [task EXCEPT ![k] = "running"]
    /\ UNCHANGED <<processing_cancelled, extraction_result, sharpness_result,
                   paths, max_workers, chunk_size, cb_kind, sc_pc, scores,
                   processed_count, chunk_start, chunk_scores, completed_count,
                   progress_log, collect_order, failed_chunks, submit_failed>>
    /\ UNCHANGED <<selector_vars, ui_vars, screen_vars>>

\* _calculate_single_frame_sharpness returns or raises in the pool thread:
\* the future is done.
WorkerFinish(k) ==
    /\ sc_pc \in {"collect", "failing"}
    /\ k \in 1..Len(task)
    /\ task[k] = "running"
    /\ task' = [task EXCEPT ![k] = "done"]
    /\ UNCHANGED <<processing_cancelled, extraction_result, sharpness_result,
                   paths, max_workers, chunk_size, cb_kind, sc_pc, scores,
                   processed_count, chunk_start, chunk_scores, completed_count,
                   progress_log, collect_order, failed_chunks, submit_failed>>
    /\ UNCHANGED <<selector_vars, ui_vars, screen_vars>>

\* the score put behind the scores collected so far (completion order)
store_score_in_completion_order(chunk_sc, idx, score) ==
    [chunk_sc EXCEPT ![completed_count + 1] = score]

\* scores[idx] = score: the slot of the path's position in the chunk
store_score(chunk_sc, idx, score) == [chunk_sc EXCEPT ![idx] = score]

\* chunk_progress_callback reporting the count within the chunk only
overall_completed_of_chunk(processed, chunk_completed) == chunk_completed

\* chunk_progress_callback: overall_completed = processed_count + chunk_completed
overall_completed(processed, chunk_completed) == processed + chunk_completed

\* One round of "for future in as_completed(futures)": a done future not yet
\* handed out; scores[idx] is set, completed_count += 1, and the progress
\* callback is called with ("sharpness", processed_count + completed_count,
\* total_frames, ...).  An exception that leaves the loop leaves the with-block.
CollectResult(k) ==
    /\ sc_pc = "collect"
    /\ k \in 1..Len(task)
    /\ task[k] = "done"
    /\ task' = [task EXCEPT ![k] = "collected"]
    /\ collect_order' = Append(collect_order, chunk_start + k)
    /\ LET r == future_result_or_default(paths[chunk_start + k])
       IN IF r.escapes
          THEN /\ sc_pc' = "failing"
               /\ failed_chunks' = failed_chunks \cup {chunk_start}
               /\ UNCHANGED <<chunk_scores, completed_count, progress_log>>
          ELSE /\ chunk_scores' = store_score(chunk_scores, k, r.score)
               /\ completed_count' = completed_count + 1
               /\ IF callback_raises(cb_kind)
                  THEN /\ sc_pc' = "failing"
                       /\ failed_chunks' = failed_chunks \cup {chunk_start}
                       /\ UNCHANGED progress_log
                  ELSE /\ sc_pc' = "collect"
                       /\ UNCHANGED failed_chunks
                       /\ progress_log' =
                            IF cb_kind = "record"
                            THEN Append(progress_log,
                                    <<overall_completed(processed_count,
                                                        completed_count + 1),
                                      Len(paths)>>)
                            ELSE progress_log
    /\ UNCHANGED <<processing_cancelled, extraction_result, sharpness_result,
                   paths, max_workers, chunk_size, cb_kind, scores,
                   processed_count, chunk_start, submit_failed>>
    /\ UNCHANGED <<selector_vars, ui_vars, screen_vars>>

\* scores.extend(chunk_scores)
extend_scores(sc, chunk_sc) == sc \o chunk_sc

\* as_completed is exhausted, the with-block is left, _process_chunk_parallel
\* returns scores and the chunk loop goes on.
ChunkDone ==
    /\ sc_pc = "collect"
    /\ \A k \in 1..Len(task) : task[k] = "collected"
    /\ scores' = extend_scores(scores, chunk_scores)
    /\ processed_count' = processed_count + Len(task)
    /\ chunk_start' = chunk_start + chunk_size
    /\ sc_pc' = "loop"
    /\ UNCHANGED <<processing_cancelled, extraction_result, sharpness_result,
                   paths, max_workers, chunk_size, cb_kind, chunk_scores,
                   completed_count, task, progress_log, collect_order,
                   failed_chunks, submit_failed>>
    /\ UNCHANGED <<selector_vars, ui_vars, screen_vars>>

\* the except branch returning the scores collected so far
chunk_failure_scores_kept(sc) == sc

\* return [0.0] * len(frame_paths)
chunk_failure_scores(sc) == [k \in 1..Len(sc) |-> 0]

\* an exit of the with-block that does not wait for the pool
executor_exit_no_wait(t) == TRUE

\* "with ThreadPoolExecutor(...) as executor": leaving the block calls
\* shutdown(wait=True), which returns once every submitted task has run
executor_exit(t) ==
    \A k \in 1..Len(t) : t[k] \notin {"queued", "running"}

\* The with-block's exit has waited for every submitted task (shutdown(wait=
\* True)); "except Exception" returns zeros for the chunk and the chunk loop
\* goes on.
ChunkFailed ==
    /\ sc_pc = "failing"
    /\ executor_exit(task)
    /\ scores' = extend_scores(scores, chunk_failure_scores(chunk_scores))
    /\ processed_count' = processed_count + Len(task)
    /\ chunk_start' = chunk_start + chunk_size
    /\ sc_pc' = "loop"
    /\ UNCHANGED <<processing_cancelled, extraction_result, sharpness_result,
                   paths, max_workers, chunk_size, cb_kind, chunk_scores,
                   completed_count, task, progress_log, collect_order,
                   failed_chunks, submit_failed>>
    /\ UNCHANGED <<selector_vars, ui_vars, screen_vars>>

\* The chunk loop is over: return scores; calculate_sharpness then returns
\* the updated ExtractionResult.
ScoringDone ==
    /\ sc_pc = "loop"
    /\ chunk_start >= Len(paths)
    /\ sc_pc' = "done"
    /\ sharpness_result' =
          IF cb_kind = "none" THEN sharpness_result
          ELSE updated_extraction_result(extraction_result, scores)
    /\ UNCHANGED <<processing_cancelled, extraction_result,
                   paths, max_workers, chunk_size, cb_kind, scores,
                   processed_count, chunk_start, chunk_scores, completed_count,
                   task, progress_log, collect_order, failed_chunks,
                   submit_failed>>
    /\ UNCHANGED <<selector_vars, ui_vars, screen_vars>>

\* ProcessingScreen.action_cancel while the worker thread runs the scorer:
\* self.processing_cancelled = True, and worker.cancel(), which marks the
\* thread worker cancelled; the scorer reads neither
ActionCancel ==
    /\ sc_pc /= "done"
    /\ ~processing_cancelled
    /\ processing_cancelled' = TRUE
    /\ UNCHANGED <<extraction_result, sharpness_result,
                   paths, max_workers, chunk_size, cb_kind, sc_pc, scores,
                   processed_count, chunk_start, chunk_scores, completed_count,
                   task, progress_log, collect_order, failed_chunks,
                   submit_failed>>
    /\ UNCHANGED <<selector_vars, ui_vars, screen_vars>>

ScorerNext ==
    \/ StartScoring
    \/ ActionCancel
    \/ SubmitChunk
    \/ \E k \in 0..MaxChunkSize : SubmitChunkRaises(k)
    \/ \E k \in 1..MaxChunkSize : WorkerStart(k)
    \/ \E k \in 1..MaxChunkSize : WorkerFinish(k)
    \/ \E k \in 1..MaxChunkSize : CollectResult(k)
    \/ ChunkDone
    \/ ChunkFailed
    \/ ScoringDone

ScorerSpec == ScorerInit /\ [][ScorerNext]_vars

(***************************************************************************)
(* The configuration wizards: TwoPhaseConfigurationForm                    *)
(* (ui/screens/configuration_v2.py) and the older ConfigurationForm        *)
(* (textual_interface.py).  A behaviour has one form; its buttons are      *)
(* pressed in any order.  What the widgets hold when a button is pressed   *)
(* is the input of the action.                                             *)
(***************************************************************************)
TwoPhase == "TwoPhaseConfigurationForm"
Legacy == "ConfigurationForm"

\* self.steps
steps(f) ==
    IF f = TwoPhase
    THEN <<"input_type", "input_path", "output_dir", "fps", "output_format",
           "width", "force_overwrite", "confirm">>
    ELSE <<"input_type", "input_path", "output_dir", "fps",
           "selection_method", "method_params", "output_format", "width",
           "force_overwrite", "confirm">>

\* self.steps[step]
step_name(f, step) == steps(f)[step + 1]

\* {key: v}
dict_of(key, v) == [k \in {key} |-> v]

\* d.get(key, default)
dict_get(d, key, default) == IF key \in DOMAIN d THEN d[key] ELSE default

\* d.update(e)
dict_update(d, e) ==
    [k \in DOMAIN d \cup DOMAIN e |-> IF k \in DOMAIN e THEN e[k] ELSE d[k]]

\* d.setdefault(key, v)
dict_setdefault(d, key, v) ==
    IF key \in DOMAIN d THEN d ELSE dict_update(d, dict_of(key, v))

\* the input types the wizards know
InputTypeValues == {"video", "video_directory", "directory"}

\* handler.get_data(self) of the step handlers: the step's own key with what
\* its widget holds; nothing for the confirm step
step_handler_data(step) ==
    CASE step = "input_type" ->
            {dict_of("input_type", t) : t \in InputTypeValues}
      [] step = "input_path" -> {dict_of("input_path", "/videos/in")}
      [] step = "output_dir" -> {dict_of("output_dir", "/out")}
      [] step = "fps" -> {dict_of("fps", r) : r \in {5, 10}}
      [] step = "output_format" ->
            {dict_of("output_format", t) : t \in {"jpg", "png"}}
      [] step = "width" -> {dict_of("width", 0)}
      [] step = "force_overwrite" -> {dict_of("force_overwrite", FALSE)}
      [] OTHER -> {EmptyDict}

\* _update_navigation_buttons without the FPS step logic
update_navigation_buttons_no_skip(step, config) == step

\* _update_navigation_buttons: the step the form is on when it returns.  On
\* the fps step with an input that is no video it moves one step on, renders
\* and runs again.
RECURSIVE update_navigation_buttons(_, _)
update_navigation_buttons(step, config) ==
    IF /\ step_name(TwoPhase, step) = "fps"
       /\ dict_get(config, "input_type", None) \notin {"video", "video_directory"}
       /\ step < Len(steps(TwoPhase)) - 1
    THEN update_navigation_buttons(step + 1, config)
    ELSE step

\* _validate_final_config: the required fields are there and not empty and
\* the input path exists
validate_final_config(config, path_exists) ==
    /\ \A field \in {"input_type", "input_path", "output_dir", "output_format"} :
            field \in DOMAIN config /\ config[field] \notin {"", None}
    /\ path_exists

\* the defaults _validate_final_config sets for the optional fields
final_config_defaults(config) ==
    dict_setdefault(dict_setdefault(dict_setdefault(config, "fps", 10),
                                    "width", 0),
                    "force_overwrite", FALSE)

ButtonEvent(op, valid, data) ==
    [op |-> op, valid |-> valid, step |-> current_step, data |-> data,
     config |-> config_data]

\* _handle_next.  valid is what handler.validate returns, step_data what
\* handler.get_data returns, path_exists what os.path.exists says of the
\* input path when processing starts.
HandleNext(valid, step_data, path_exists) ==
    /\ form = TwoPhase
    /\ ~processing_screen.pushed
    /\ LET current_step_name == step_name(form, current_step)
           saved == dict_update(config_data, step_data)
       IN IF ~valid
          THEN /\ ui_event' = ButtonEvent("next", FALSE, EmptyDict)
               /\ UNCHANGED <<config_data, current_step, processing_screen>>
          ELSE /\ ui_event' = ButtonEvent("next", TRUE, step_data)
               /\ IF current_step_name = "confirm"
                  THEN /\ current_step' = current_step
                       /\ IF validate_final_config(saved, path_exists)
                          THEN /\ config_data' = final_config_defaults(saved)
                               /\ processing_screen' =
                                     [pushed |-> TRUE,
                                      config |-> final_config_defaults(saved)]
                          ELSE /\ config_data' = saved
                               /\ UNCHANGED processing_screen
                  ELSE /\ config_data' = saved
                       /\ current_step' =
                             update_navigation_buttons(current_step + 1, saved)
                       /\ UNCHANGED processing_screen
    /\ UNCHANGED <<form, validator_vars>>
    /\ UNCHANGED <<selector_vars, scorer_vars, screen_vars>>

\* _handle_back
HandleBack ==
    /\ form = TwoPhase
    /\ ~processing_screen.pushed
    /\ ui_event' = ButtonEvent("back", TRUE, EmptyDict)
    /\ current_step' = IF current_step > 0
                       THEN update_navigation_buttons(current_step - 1,
                                                      config_data)
                       ELSE current_step
    /\ UNCHANGED <<form, config_data, processing_screen, validator_vars>>
    /\ UNCHANGED <<selector_vars, scorer_vars, screen_vars>>

\* ConfigurationForm._should_show_step
should_show_step(config, step) ==
    IF step = "fps"
    THEN dict_get(config, "input_type", None) = "video"
    ELSE IF step = "method_params"
    THEN dict_get(config, "selection_method", None)
            \in {"best-n", "batched", "outlier-removal"}
    ELSE TRUE

\* the keys _save_current_step sets on a step, with what the widgets hold
save_current_step_data(step, config) ==
    CASE step = "input_type" ->
            {dict_of("input_type", t) : t \in {"video", "directory"}}
      [] step = "input_path" -> {dict_of("input_path", "/videos/in")}
      [] step = "output_dir" -> {dict_of("output_dir", "/out")}
      [] step = "fps" -> {dict_of("fps", 10)}
      [] step = "selection_method" ->
            {dict_of("selection_method", m) :
                m \in {"best-n", "batched", "outlier-removal"}}
      [] step = "method_params" ->
            LET method == dict_get(config, "selection_method", None)
            IN IF method = "best-n"
               THEN {[num_frames |-> 300, min_buffer |-> 3]}
               ELSE IF method = "batched"
               THEN {[batch_size |-> 5, batch_buffer |-> 2]}
               ELSE IF method = "outlier-removal"
               THEN {[outlier_window_size |-> 15, outlier_sensitivity |-> 50]}
               ELSE {EmptyDict}
      [] step = "output_format" -> {dict_of("output_format", "jpg")}
      [] step = "width" -> {dict_of("width", 0)}
      [] step = "force_overwrite" -> {dict_of("force_overwrite", FALSE)}
      [] OTHER -> {EmptyDict}

\* the while loop of _next_step: on to the next step that is shown
RECURSIVE next_shown_step(_, _)
next_shown_step(step, config) ==
    IF step < Len(steps(Legacy)) /\ ~should_show_step(config, step_name(Legacy, step))
    THEN next_shown_step(step + 1, config)
    ELSE step

\* the while loop of _back_step: back to the previous step that is shown
RECURSIVE previous_shown_step(_, _)
previous_shown_step(step, config) ==
    IF step > 0 /\ ~should_show_step(config, step_name(Legacy, step))
    THEN previous_shown_step(step - 1, config)
    ELSE step

\* _prepare_final_config: input type and fps of the final configuration
prepare_final_config(config) ==
    LET input_type == dict_get(config, "input_type", "video")
    IN [input_type |-> input_type,
        fps |-> IF input_type = "video" THEN dict_get(config, "fps", 10) ELSE 0,
        selection_method |-> dict_get(config, "selection_method", "best-n")]

\* _next_step.  valid is what _save_current_step returns and data the keys it
\* set.  Behind the last step action_process pushes the processing screen.
NextStep(valid, data) ==
    /\ form = Legacy
    /\ ~processing_screen.pushed
    /\ IF ~valid
       THEN /\ ui_event' = ButtonEvent("next", FALSE, EmptyDict)
            /\ UNCHANGED <<config_data, current_step, processing_screen>>
       ELSE LET saved == dict_update(config_data, data)
                next == next_shown_step(current_step + 1, saved)
            IN /\ ui_event' = ButtonEvent("next", TRUE, data)
               /\ config_data' = saved
               /\ current_step' = next
               /\ processing_screen' =
                     IF next >= Len(steps(Legacy))
                     THEN [pushed |-> TRUE, config |-> prepare_final_config(saved)]
                     ELSE processing_screen
    /\ UNCHANGED <<form, validator_vars>>
    /\ UNCHANGED <<selector_vars, scorer_vars, screen_vars>>

\* _back_step
BackStep ==
    /\ form = Legacy
    /\ ~processing_screen.pushed
    /\ ui_event' = ButtonEvent("back", TRUE, EmptyDict)
    /\ current_step' = IF current_step > 0
                       THEN previous_shown_step(current_step - 1, config_data)
                       ELSE current_step
    /\ UNCHANGED <<form, config_data, processing_screen, validator_vars>>
    /\ UNCHANGED <<selector_vars, scorer_vars, screen_vars>>

\* the config_data the tests of _should_show_step give a ConfigurationForm
TestConfigs ==
    {EmptyDict} \cup {dict_of("input_type", t) : t \in InputTypeValues}

WizardInit ==
    /\ form \in {TwoPhase, Legacy}
    /\ config_data \in (IF form = Legacy THEN TestConfigs ELSE {EmptyDict})
    /\ current_step = 0
    /\ processing_screen = NoScreen
    /\ ui_event = NoEvent
    /\ ValidatorIdle
    /\ ScreensIdle
    /\ frames = <<>>
    /\ sel_call = NoCall
    /\ sel_ret = NoReturn
    /\ sel_initial = NoSelection
    /\ sel_filled = NoSelection
    /\ sel_batches = <<>>
    /\ ScorerIdle

WizardNext ==
    \/ /\ form = TwoPhase
       /\ \E valid \in BOOLEAN, path_exists \in BOOLEAN :
            \E step_data \in step_handler_data(step_name(form, current_step)) :
               HandleNext(valid, step_data, path_exists)
    \/ HandleBack
    \/ /\ form = Legacy
       /\ ~processing_screen.pushed
       /\ \E valid \in BOOLEAN :
            \E data \in save_current_step_data(step_name(form, current_step),
                                               config_data) :
               NextStep(valid, data)
    \/ BackStep

WizardSpec == WizardInit /\ [][WizardNext]_vars

(***************************************************************************)
(* IntRangeValidator (ui/components/validators.py; textual_interface.py    *)
(* has the same class).  A string is a sequence of characters.             *)
(***************************************************************************)
Chars == {" ", "+", "-", "_", "0", "1", "2", "a"}
Digits == {"0", "1", "2"}

digit_value(c) == CASE c = "0" -> 0 [] c = "1" -> 1 [] c = "2" -> 2

\* str.strip(): the string without its leading and trailing whitespace
RECURSIVE lstrip(_)
lstrip(str) ==
    IF str /= <<>> /\ Head(str) = " " THEN lstrip(Tail(str)) ELSE str

RECURSIVE rstrip(_)
rstrip(str) ==
    IF str /= <<>> /\ str[Len(str)] = " "
    THEN rstrip(SubSeq(str, 1, Len(str) - 1))
    ELSE str

strip(str) == rstrip(lstrip(str))

\* the digits of an int literal read from the left: acc is the value so far,
\* k the position, after_digit whether the character before k was a digit.
\* Single underscores may stand between digits.
RECURSIVE int_digits(_, _, _, _)
int_digits(str, k, acc, after_digit) ==
    IF k > Len(str) THEN [ok |-> after_digit, v |-> acc]
    ELSE IF str[k] \in Digits
    THEN int_digits(str, k + 1, 10 * acc + digit_value(str[k]), TRUE)
    ELSE IF str[k] = "_" /\ after_digit
    THEN int_digits(str, k + 1, acc, FALSE)
    ELSE [ok |-> FALSE, v |-> 0]

\* int(str) for a str: an optional sign, then the digits; ok is FALSE where
\* int raises ValueError
int_of_str(str) ==
    LET body == strip(str)
    IN IF body = <<>> THEN [ok |-> FALSE, v |-> 0]
       ELSE IF Head(body) = "-"
       THEN LET d == int_digits(body, 2, 0, FALSE)
            IN [ok |-> d.ok, v |-> 0 - d.v]
       ELSE IF Head(body) = "+" THEN int_digits(body, 2, 0, FALSE)
       ELSE int_digits(body, 1, 0, FALSE)

\* self.failure(description) and self.success()
failure(description) == [is_valid |-> FALSE, failure |-> description]
success == [is_valid |-> TRUE, failure |-> ""]

\* validate with the minimum excluded
validate_exclusive_min(v, str) ==
    IF strip(str) = <<>> THEN failure("Value cannot be empty")
    ELSE LET int_value == int_of_str(strip(str))
         IN IF ~int_value.ok THEN failure("Must be a valid integer")
            ELSE IF v.min_value /= <<>> /\ int_value.v <= v.min_value[1]
            THEN failure("Value must be at least min_value")
            ELSE IF v.max_value /= <<>> /\ int_value.v > v.max_value[1]
            THEN failure("Value must be at most max_value")
            ELSE success

\* IntRangeValidator.validate
validate(v, str) ==
    IF strip(str) = <<>> THEN failure("Value cannot be empty")
    ELSE LET int_value == int_of_str(strip(str))
         IN IF ~int_value.ok THEN failure("Must be a valid integer")
            ELSE IF v.min_value /= <<>> /\ int_value.v < v.min_value[1]
            THEN failure("Value must be at least min_value")
            ELSE IF v.max_value /= <<>> /\ int_value.v > v.max_value[1]
            THEN failure("Value must be at most max_value")
            ELSE success

\* IntRangeValidator(min_value, max_value): the validators of the tests and
\* the forms
Validators ==
    { [min_value |-> lo, max_value |-> hi] :
        lo \in {<<>>, <<0>>, <<1>>, <<10>>}, hi \in {<<>>, <<2>>, <<12>>} }

RECURSIVE StringsUpTo(_)
StringsUpTo(n) ==
    IF n = 0 THEN {<<>>}
    ELSE LET shorter == StringsUpTo(n - 1)
         IN shorter \cup {Append(str, c) : str \in shorter, c \in Chars}

ValidatorInit ==
    /\ validator \in Validators
    /\ value \in StringsUpTo(MaxValueLen)
    /\ validation = NoValidation
    /\ FormIdle
    /\ ScreensIdle
    /\ frames = <<>>
    /\ sel_call = NoCall
    /\ sel_ret = NoReturn
    /\ sel_initial = NoSelection
    /\ sel_filled = NoSelection
    /\ sel_batches = <<>>
    /\ ScorerIdle

\* validator.validate(value)
Validate ==
    /\ validation = NoValidation
    /\ validation' = validate(validator, value)
    /\ UNCHANGED <<validator, value, form_vars>>
    /\ UNCHANGED <<selector_vars, scorer_vars, screen_vars>>

ValidatorNext == Validate

ValidatorSpec == ValidatorInit /\ [][ValidatorNext]_vars

(***************************************************************************)
(* SelectionScreen (ui/screens/selection.py): the method select, the       *)
(* parameter inputs and the debounced preview.  The handlers run on the    *)
(* asyncio event loop, one at a time; a preview task gives way at its two  *)
(* awaits.                                                                 *)
(***************************************************************************)

\* self.method_definitions: default, min and max of each parameter (all of
\* type int)
method_definitions ==
    [best_n |->
        [n |-> [default |-> 300, min |-> 1, max |-> 10000],
         min_buffer |-> [default |-> 3, min |-> 0, max |-> 100]],
     batched |->
        [batch_size |-> [default |-> 5, min |-> 1, max |-> 100],
         batch_buffer |-> [default |-> 2, min |-> 0, max |-> 50]],
     outlier_removal |->
        [outlier_sensitivity |-> [default |-> 50, min |-> 0, max |-> 100],
         outlier_window_size |-> [default |-> 15, min |-> 3, max |-> 30]]]

\* the keys of method_definitions in the order of the dict
method_order == <<"best_n", "batched", "outlier_removal">>

\* name.split("_") of the names that make up the ids of the inputs
split_underscore(name) ==
    CASE name = "best_n" -> <<"best", "n">>
      [] name = "batched" -> <<"batched">>
      [] name = "outlier_removal" -> <<"outlier", "removal">>
      [] name = "n" -> <<"n">>
      [] name = "min_buffer" -> <<"min", "buffer">>
      [] name = "batch_size" -> <<"batch", "size">>
      [] name = "batch_buffer" -> <<"batch", "buffer">>
      [] name = "outlier_sensitivity" -> <<"outlier", "sensitivity">>
      [] name = "outlier_window_size" -> <<"outlier", "window", "size">>

ParameterNames ==
    UNION {DOMAIN method_definitions[m] : m \in DOMAIN method_definitions}

\* "_".join(parts): the parameter name of these parts, "" where the parts
\* make no parameter name
join_underscore(parts) ==
    IF \E name \in ParameterNames : split_underscore(name) = parts
    THEN CHOOSE name \in ParameterNames : split_underscore(name) = parts
    ELSE ""

\* f"param_{method}_{param_name}", split at the underscores
input_id_of(method, param_name) ==
    <<"param">> \o split_underscore(method) \o split_underscore(param_name)

\* input_id.startswith(f"param_{method}_"): the prefix ends with an
\* underscore, so it matches when the parts of the id begin with its parts
\* and go on
starts_with_prefix(input_id, method) ==
    LET prefix == <<"param">> \o split_underscore(method)
    IN /\ Len(input_id) > Len(prefix)
       /\ SubSeq(input_id, 1, Len(prefix)) = prefix

\* the loop of on_input_changed over method_definitions: the first method
\* whose prefix the id starts with, and the rest of the id as param_name
RECURSIVE parse_input_id(_, _)
parse_input_id(input_id, k) ==
    IF k > Len(method_order) THEN [found |-> FALSE, method |-> "", param_name |-> ""]
    ELSE IF starts_with_prefix(input_id, method_order[k])
    THEN [found |-> TRUE, method |-> method_order[k],
          param_name |->
              join_underscore(SubSeq(input_id,
                                     2 + Len(split_underscore(method_order[k])),
                                     Len(input_id)))]
    ELSE parse_input_id(input_id, k + 1)

\* the defaults on_select_changed fills current_parameters with
default_parameters(method) ==
    [param_name \in DOMAIN method_definitions[method] |->
        method_definitions[method][param_name].default]

\* self.processor.preview_selection(method, **params): the processor is
\* handed to the screen by its caller; its count for a method and parameters
\* is kept as the call it answers
processor_preview_selection(method, params) ==
    [method |-> method, params |-> params]

\* _handle_parameter_change without the clamp to [min, max]
handle_parameter_change_no_clamp(method, params, param_name, value_str) ==
    IF param_name \notin DOMAIN method_definitions[method]
    THEN [changed |-> FALSE, params |-> params]
    ELSE LET param_info == method_definitions[method][param_name]
             parsed == int_of_str(value_str)
             new_value == IF strip(value_str) = <<>> THEN param_info.default
                          ELSE parsed.v
         IN IF strip(value_str) /= <<>> /\ ~parsed.ok
            THEN [changed |-> FALSE, params |-> params]
            ELSE IF param_name \in DOMAIN params /\ params[param_name] = new_value
            THEN [changed |-> FALSE, params |-> params]
            ELSE [changed |-> TRUE,
                  params |-> dict_update(params, dict_of(param_name, new_value))]

\* _handle_parameter_change up to the call of _update_preview_async: the new
\* current_parameters, and whether the value changed.  A KeyError (no such
\* parameter of the method) and a ValueError (int(value_str)) leave
\* current_parameters as they are.
handle_parameter_change(method, params, param_name, value_str) ==
    IF param_name \notin DOMAIN method_definitions[method]
    THEN [changed |-> FALSE, params |-> params]
    ELSE LET param_info == method_definitions[method][param_name]
             parsed == int_of_str(value_str)
             new_value == IF strip(value_str) = <<>> THEN param_info.default
                          ELSE Max(param_info.min, Min(parsed.v, param_info.max))
         IN IF strip(value_str) /= <<>> /\ ~parsed.ok
            THEN [changed |-> FALSE, params |-> params]
            ELSE IF param_name \in DOMAIN params /\ params[param_name] = new_value
            THEN [changed |-> FALSE, params |-> params]
            ELSE [changed |-> TRUE,
                  params |-> dict_update(params, dict_of(param_name, new_value))]

\* an asyncio task running _update_preview_debounced: made and not started
\* ("created"), in asyncio.sleep ("sleeping"), in await post_message after
\* the display was updated ("posting"), or over: "done", "cancelled" (it met
\* the CancelledError) or "failed" (the preview raised)
NewTask == [pc |-> "created", cancel_requested |-> FALSE]

task_done(t) == t.pc \in {"done", "cancelled", "failed"}

\* _update_preview_async without the cancel of the previous task
update_preview_async_no_cancel(tasks, latest) ==
    Append(tasks, NewTask)

\* _update_preview_async: the tasks after it; the new task is the last
update_preview_async(tasks, latest) ==
    LET cancelled ==
            IF latest /= 0 /\ ~task_done(tasks[latest])
            THEN [tasks EXCEPT ![latest].cancel_requested = TRUE]
            ELSE tasks
    IN Append(cancelled, NewTask)

\* the screen is mounted: on_mount has run
Mounted == preview_task /= 0

\* on_mount
OnMount ==
    /\ current_method /= "none"
    /\ ~Mounted
    /\ asyncio_tasks' = update_preview_async(asyncio_tasks, preview_task)
    /\ preview_task' = Len(asyncio_tasks')
    /\ selection_event' = [NoSelectionEvent EXCEPT !.op = "mount"]
    /\ UNCHANGED <<current_method, current_parameters, selected_count>>
    /\ UNCHANGED <<selector_vars, scorer_vars, ui_vars, processing_vars>>

\* on_select_changed(event) for event.select.id = select_id, event.value = method
OnSelectChanged(select_id, method) ==
    /\ Mounted
    /\ Len(asyncio_tasks) < MaxPreviewTasks
    /\ selection_event' = [op |-> IF select_id = "method_select" THEN "select"
                                   ELSE "select_other",
                           method |-> method]
    /\ IF select_id = "method_select"
       THEN /\ current_method' = method
            /\ current_parameters' = default_parameters(method)
            /\ asyncio_tasks' = update_preview_async(asyncio_tasks, preview_task)
            /\ preview_task' = Len(asyncio_tasks')
       ELSE UNCHANGED <<current_method, current_parameters, asyncio_tasks,
                        preview_task>>
    /\ UNCHANGED selected_count
    /\ UNCHANGED <<selector_vars, scorer_vars, ui_vars, processing_vars>>

\* on_input_changed(event) for event.input.id = input_id, event.value =
\* value_str.  The number of preview tasks of a behaviour is capped: no event
\* is handled once MaxPreviewTasks tasks were made.
OnInputChanged(input_id, value_str) ==
    /\ Mounted
    /\ Len(asyncio_tasks) < MaxPreviewTasks
    /\ LET id == parse_input_id(input_id, 1)
           result == handle_parameter_change(current_method, current_parameters,
                                             id.param_name, value_str)
       IN /\ selection_event' = [op |-> "input", method |-> id.method]
          /\ IF id.found /\ id.method = current_method /\ result.changed
             THEN /\ current_parameters' = result.params
                  /\ asyncio_tasks' = update_preview_async(asyncio_tasks, preview_task)
                  /\ preview_task' = Len(asyncio_tasks')
             ELSE UNCHANGED <<current_parameters, asyncio_tasks, preview_task>>
    /\ UNCHANGED <<current_method, selected_count>>
    /\ UNCHANGED <<selector_vars, scorer_vars, ui_vars, processing_vars>>

\* the event loop starts task t: a task cancelled before its first step
\* never runs its body, the others reach asyncio.sleep
TaskStart(t) ==
    /\ asyncio_tasks[t].pc = "created"
    /\ asyncio_tasks' =
          [asyncio_tasks EXCEPT ![t].pc =
              IF asyncio_tasks[t].cancel_requested THEN "cancelled" ELSE "sleeping"]
    /\ UNCHANGED <<current_method, current_parameters, preview_task,
                   selected_count, selection_event>>
    /\ UNCHANGED <<selector_vars, scorer_vars, ui_vars, processing_vars>>

\* the sleep of task t is over.  A cancelled task gets the CancelledError
\* instead and ends; the others ask the processor for the preview of the
\* method and parameters of this moment and, unless that raises, put it on
\* display (_update_preview_display), then wait in post_message
TaskWake(t, raises) ==
    /\ asyncio_tasks[t].pc = "sleeping"
    /\ IF asyncio_tasks[t].cancel_requested
       THEN /\ asyncio_tasks' = [asyncio_tasks EXCEPT ![t].pc = "cancelled"]
            /\ UNCHANGED selected_count
       ELSE IF raises
       THEN /\ asyncio_tasks' = [asyncio_tasks EXCEPT ![t].pc = "failed"]
            /\ UNCHANGED selected_count
       ELSE /\ asyncio_tasks' = [asyncio_tasks EXCEPT ![t].pc = "posting"]
            /\ selected_count' =
                  processor_preview_selection(current_method, current_parameters)
    /\ UNCHANGED <<current_method, current_parameters, preview_task,
                   selection_event>>
    /\ UNCHANGED <<selector_vars, scorer_vars, ui_vars, processing_vars>>

\* post_message of task t returns, or the task gets the CancelledError there
TaskPosted(t) ==
    /\ asyncio_tasks[t].pc = "posting"
    /\ asyncio_tasks' =
          [asyncio_tasks EXCEPT ![t].pc =
              IF asyncio_tasks[t].cancel_requested THEN "cancelled" ELSE "done"]
    /\ UNCHANGED <<current_method, current_parameters, preview_task,
                   selected_count, selection_event>>
    /\ UNCHANGED <<selector_vars, scorer_vars, ui_vars, processing_vars>>

\* what the user, or a test, types into an input
EditStrings ==
    {<<>>, <<"a">>, <<" ", "2">>, <<"2", "0", "0", "0", "0">>}

\* the ids of the inputs the screen mounts for its methods, and another id
InputIds ==
    UNION {{input_id_of(m, p) : p \in DOMAIN method_definitions[m]} :
             m \in DOMAIN method_definitions}
        \cup {<<"other">>}

\* SelectionScreen.__init__
SelectionInit ==
    /\ current_method = "best_n"
    /\ current_parameters = default_parameters("best_n")
    /\ preview_task = 0
    /\ asyncio_tasks = <<>>
    /\ selected_count = NoPreview
    /\ selection_event = NoSelectionEvent
    /\ ProcessingIdle
    /\ frames = <<>>
    /\ sel_call = NoCall
    /\ sel_ret = NoReturn
    /\ sel_initial = NoSelection
    /\ sel_filled = NoSelection
    /\ sel_batches = <<>>
    /\ ScorerIdle
    /\ UiIdle

SelectionNext ==
    \/ OnMount
    \/ \E select_id \in {"method_select", "other_select"},
          method \in DOMAIN method_definitions :
          OnSelectChanged(select_id, method)
    \/ \E input_id \in InputIds, value_str \in EditStrings :
          OnInputChanged(input_id, value_str)
    \/ \E t \in 1..Len(asyncio_tasks) : TaskStart(t)
    \/ \E t \in 1..Len(asyncio_tasks), raises \in BOOLEAN : TaskWake(t, raises)
    \/ \E t \in 1..Len(asyncio_tasks) : TaskPosted(t)

SelectionSpec == SelectionInit /\ [][SelectionNext]_vars

(***************************************************************************)
(* The legacy ProcessingScreen (textual_interface.py).  _process_frames    *)
(* runs in a thread worker; the handlers of the screen run on the UI       *)
(* thread, one at a time.  The worker thread reaches the widgets only      *)
(* through app.call_from_thread, which hands the call to the UI thread and *)
(* blocks until that thread has run it.                                    *)
(***************************************************************************)

\* phase_mapping.get(phase, 0)
phase_mapping(phase) ==
    CASE phase = "dependencies" -> 0
      [] phase = "extraction" -> 1
      [] phase = "loading" -> 1
      [] phase = "sharpness" -> 2
      [] phase = "selection" -> 3
      [] phase = "saving" -> 4
      [] OTHER -> 0

\* the phases _update_progress_ui knows, in the order of its list
KnownPhases ==
    <<"dependencies", "extraction", "loading", "sharpness", "selection", "saving">>

\* phase_names[phase]
phase_names(phase) ==
    CASE phase = "dependencies" -> "Checking Dependencies"
      [] phase = "extraction" -> "Extracting Frames"
      [] phase = "loading" -> "Loading Images"
      [] phase = "sharpness" -> "Calculating Sharpness"
      [] phase = "selection" -> "Selecting Frames"
      [] phase = "saving" -> "Saving Results"

RECURSIVE gcd(_, _)
gcd(a, b) == IF b = 0 THEN a ELSE gcd(b, a % b)

\* the fraction num / den, den > 0, in lowest terms
fraction(num, den) ==
    <<num \div gcd(num, den), den \div gcd(num, den)>>

\* total_progress of _progress_callback: current_phase_num * 20 plus
\* (current / total) * 20 if total > 0, clamped to 0..100, as a fraction
total_progress_of(phase, current, total) ==
    LET den == IF total > 0 THEN total ELSE 1
        num == phase_mapping(phase) * 20 * den
                  + (IF total > 0 THEN current * 20 ELSE 0)
    IN IF num > 100 * den THEN <<100, 1>>
       ELSE IF num < 0 THEN <<0, 1>>
       ELSE fraction(num, den)

\* _progress_callback(phase, current, total): the call it hands to
\* call_from_thread, none once a flag is set
progress_callback(phase, current, total, complete, cancelled) ==
    IF cancelled \/ complete THEN NoUiCall
    ELSE [fn |-> "_update_progress_ui", phase |-> phase, current |-> current,
          total |-> total,
          total_progress |-> total_progress_of(phase, current, total)]

\* _update_progress_ui without the test of the two flags
update_progress_ui_no_flag_test(w, call, complete, cancelled) ==
    IF \A k \in 1..Len(KnownPhases) : KnownPhases[k] /= call.phase THEN w
    ELSE LET phase_num ==
                 IF call.phase = "loading" THEN 2
                 ELSE CHOOSE k \in 1..Len(KnownPhases) : KnownPhases[k] = call.phase
         IN [w EXCEPT !.status_text = phase_names(call.phase),
                      !.phase_text = IF call.total > 0
                                     THEN <<phase_num, call.current, call.total>>
                                     ELSE <<phase_num>>,
                      !.progress = call.total_progress]

\* _update_progress_ui(phase, current, total, total_progress, description):
\* the widgets after it.  A phase that is not in the list raises ValueError
\* at .index(phase), before any widget is touched, and the except clause
\* swallows it.
update_progress_ui(w, call, complete, cancelled) ==
    IF complete \/ cancelled THEN w
    ELSE IF \A k \in 1..Len(KnownPhases) : KnownPhases[k] /= call.phase THEN w
    ELSE LET phase_num ==
                 IF call.phase = "loading" THEN 2
                 ELSE CHOOSE k \in 1..Len(KnownPhases) : KnownPhases[k] = call.phase
         IN [w EXCEPT !.status_text = phase_names(call.phase),
                      !.phase_text = IF call.total > 0
                                     THEN <<phase_num, call.current, call.total>>
                                     ELSE <<phase_num>>,
                      !.progress = call.total_progress]

\* the call of _update_debug_info(message) handed to call_from_thread
debug_call(message) ==
    [fn |-> "_update_debug_info", phase |-> message, current |-> 0, total |-> 0,
     total_progress |-> <<0, 1>>]

\* worker.is_finished
is_finished(w) == w.state \in {"success", "error", "cancelled"}

\* the scorer of the behaviour stays idle; processing_cancelled is the flag
\* of this screen
scoring_vars == <<extraction_result, sharpness_result,
                  paths, max_workers, chunk_size, cb_kind, sc_pc, scores,
                  processed_count, chunk_start, chunk_scores, completed_count,
                  task, progress_log, collect_order, failed_chunks,
                  submit_failed>>

\* on_mount, start_processing: config_issues is what _validate_config found
StartProcessing(config_issues) ==
    /\ widgets = NoWidgets
    /\ worker_state.state = "none"
    /\ app_result = "none"
    /\ IF config_issues
       THEN /\ widgets' = [widgets EXCEPT !.status_text = "Configuration Error",
                                          !.phase_text = <<"Config issue">>,
                                          !.button_label = "Close"]
            /\ UNCHANGED <<worker_state, worker_pc, worker_events>>
       ELSE /\ widgets' = [widgets EXCEPT !.status_text = "Initializing",
                                          !.phase_text = <<1>>,
                                          !.progress = <<0, 1>>]
            /\ worker_state' = [state |-> "running", result |-> "None"]
            /\ worker_pc' = "creating"
            /\ worker_events' = worker_events + 1
    /\ UNCHANGED <<processing_cancelled, processing_complete, ui_call,
                   progress_delivery, app_result>>
    /\ UNCHANGED <<selector_vars, scoring_vars, ui_vars, selection_vars>>

\* the worker thread in _process_frames before self.processor.run(): the
\* processor is made and _update_debug_info is called through call_from_thread
WorkerCreateProcessor ==
    /\ worker_pc = "creating"
    /\ ui_call = NoUiCall
    /\ ui_call' = debug_call("Starting processing...")
    /\ worker_pc' = "running"
    /\ UNCHANGED <<processing_cancelled, processing_complete, worker_state,
                   worker_events, widgets, progress_delivery, app_result>>
    /\ UNCHANGED <<selector_vars, scoring_vars, ui_vars, selection_vars>>

\* the worker thread in self.processor.run(): _update_progress calls
\* _progress_callback(phase, current, total, description)
ProgressCallback(phase, current, total) ==
    /\ worker_pc = "running"
    /\ ui_call = NoUiCall
    /\ ui_call' = progress_callback(phase, current, total,
                                    processing_complete, processing_cancelled)
    /\ UNCHANGED <<processing_cancelled, processing_complete, worker_state,
                   worker_pc, worker_events, widgets, progress_delivery,
                   app_result>>
    /\ UNCHANGED <<selector_vars, scoring_vars, ui_vars, selection_vars>>

\* self.processor.run() is over.  outcome "True": it returned True; "False":
\* it returned False, which is reported through _update_debug_info before
\* the return; "interrupt": KeyboardInterrupt, reported likewise; "error":
\* another exception, reported and raised again
WorkerRunOver(outcome) ==
    /\ worker_pc = "running"
    /\ ui_call = NoUiCall
    /\ worker_pc' = IF outcome = "True" THEN "returned" ELSE outcome
    /\ ui_call' = IF outcome = "True" THEN NoUiCall ELSE debug_call(outcome)
    /\ UNCHANGED <<processing_cancelled, processing_complete, worker_state, worker_events, widgets,
                   progress_delivery, app_result>>
    /\ UNCHANGED <<selector_vars, scoring_vars, ui_vars, selection_vars>>

\* _process_frames returns or raises, after the KeyboardInterrupt handler
\* has set processing_cancelled in the worker thread: unless the worker was
\* cancelled meanwhile, Textual sets its state and result and posts
\* StateChanged
WorkerExit ==
    /\ worker_pc \in {"returned", "False", "interrupt", "error"}
    /\ ui_call = NoUiCall
    /\ worker_pc' = "over"
    /\ IF worker_state.state = "running"
       THEN /\ worker_state' =
                  IF worker_pc = "error" THEN [state |-> "error", result |-> "None"]
                  ELSE [state |-> "success",
                        result |-> IF worker_pc = "returned" THEN "True" ELSE "False"]
            /\ worker_events' = worker_events + 1
       ELSE UNCHANGED <<worker_state, worker_events>>
    /\ processing_cancelled' =
          IF worker_pc = "interrupt" THEN TRUE ELSE processing_cancelled
    /\ UNCHANGED <<processing_complete, ui_call, widgets,
                   progress_delivery, app_result>>
    /\ UNCHANGED <<selector_vars, scoring_vars, ui_vars, selection_vars>>

\* the UI thread runs the call handed over by call_from_thread:
\* _update_progress_ui or _update_debug_info
RunUiCall ==
    /\ ui_call /= NoUiCall
    /\ ui_call' = NoUiCall
    /\ IF ui_call.fn = "_update_progress_ui"
       THEN /\ widgets' = update_progress_ui(widgets, ui_call, processing_complete,
                                             processing_cancelled)
            /\ progress_delivery' = [phase |-> ui_call.phase,
                                     complete |-> processing_complete,
                                     cancelled |-> processing_cancelled]
       ELSE /\ widgets' = [widgets EXCEPT !.phase_text = <<"Debug", ui_call.phase>>]
            /\ UNCHANGED progress_delivery
    /\ UNCHANGED <<processing_cancelled, processing_complete, worker_state,
                   worker_pc, worker_events, app_result>>
    /\ UNCHANGED <<selector_vars, scoring_vars, ui_vars, selection_vars>>

\* on_worker_state_changed(event): it reads the worker, not the event
OnWorkerStateChanged ==
    /\ worker_events > 0
    /\ app_result = "none"
    /\ worker_events' = worker_events - 1
    /\ IF is_finished(worker_state)
       THEN /\ processing_complete' = TRUE
            /\ widgets' =
                  IF worker_state.result = "True"
                  THEN [widgets EXCEPT !.status_text = "Processing completed successfully!",
                                       !.phase_text = <<"All phases complete!">>,
                                       !.bar_displayed = FALSE,
                                       !.button_label = "Close"]
                  ELSE IF processing_cancelled
                  THEN [widgets EXCEPT !.status_text = "Processing cancelled by user.",
                                       !.phase_text = <<"Processing was cancelled.">>,
                                       !.progress = <<0, 1>>,
                                       !.button_label = "Close"]
                  ELSE [widgets EXCEPT !.status_text = "Processing failed",
                                       !.phase_text = <<"Processing failed">>,
                                       !.progress = <<0, 1>>,
                                       !.button_label = "Close"]
       ELSE UNCHANGED <<processing_complete, widgets>>
    /\ UNCHANGED <<processing_cancelled, worker_state, worker_pc, ui_call,
                   progress_delivery, app_result>>
    /\ UNCHANGED <<selector_vars, scoring_vars, ui_vars, selection_vars>>

\* action_cancel (ctrl+c, or the button while its label is Cancel): listed
\* tells whether self.workers still holds a worker that has finished
CancelProcessing(listed) ==
    /\ widgets /= NoWidgets
    /\ app_result = "none"
    /\ processing_cancelled' = TRUE
    /\ IF worker_state.state = "running"
       THEN /\ worker_state' = [worker_state EXCEPT !.state = "cancelled"]
            /\ worker_events' = worker_events + 1
            /\ UNCHANGED app_result
       ELSE /\ UNCHANGED <<worker_state, worker_events>>
            /\ app_result' = IF worker_state.state = "none" \/ ~listed
                             THEN "cancelled" ELSE "none"
    /\ UNCHANGED <<processing_complete, worker_pc, ui_call, widgets,
                   progress_delivery>>
    /\ UNCHANGED <<selector_vars, scoring_vars, ui_vars, selection_vars>>

\* on_button_pressed while the label of the button is Close
CloseProcessing ==
    /\ widgets.button_label = "Close"
    /\ app_result = "none"
    /\ app_result' = "completed"
    /\ UNCHANGED <<processing_cancelled, processing_complete, worker_state,
                   worker_pc, ui_call, worker_events, widgets,
                   progress_delivery>>
    /\ UNCHANGED <<selector_vars, scoring_vars, ui_vars, selection_vars>>

\* the phases MinimalProgressSharpFrames reports
ReportedPhases == {"extraction", "sharpness", "selection", "saving"}

\* ProcessingScreen.__init__
ProcessingInit ==
    /\ ProcessingIdle
    /\ SelectionIdle
    /\ frames = <<>>
    /\ sel_call = NoCall
    /\ sel_ret = NoReturn
    /\ sel_initial = NoSelection
    /\ sel_filled = NoSelection
    /\ sel_batches = <<>>
    /\ ScorerIdle
    /\ UiIdle

ProcessingNext ==
    \/ \E config_issues \in BOOLEAN : StartProcessing(config_issues)
    \/ WorkerCreateProcessor
    \/ \E phase \in ReportedPhases, total \in 0..MaxProgressTotal,
          current \in 0..MaxProgressTotal :
          ProgressCallback(phase, current, total)
    \/ \E outcome \in {"True", "False", "interrupt", "error"} : WorkerRunOver(outcome)
    \/ WorkerExit
    \/ RunUiCall
    \/ OnWorkerStateChanged
    \/ \E listed \in BOOLEAN : CancelProcessing(listed)
    \/ CloseProcessing

ProcessingSpec == ProcessingInit /\ [][ProcessingNext]_vars

(***************************************************************************)
(* Properties of FrameSelector, under SelectorSpec                         *)
(***************************************************************************)

Selected(method) ==
    /\ sel_call.op = "select_frames"
    /\ sel_call.method = method

ArgN == params_get(sel_call.params, "n", DEFAULT_N)
ArgMinBuffer == params_get(sel_call.params, "min_buffer", DEFAULT_MIN_BUFFER)
ArgBatchCount == params_get(sel_call.params, "batch_count", DEFAULT_BATCH_COUNT)

\* best_n was called and its two passes ran
BestNRan == Selected("best_n") /\ frames /= <<>> /\ ArgN >= 1

InputFrames == {frames[k] : k \in 1..Len(frames)}

StrictlyIncreasingIndex(fs) ==
    \A a, b \in 1..Len(fs) : a < b => fs[a].index < fs[b].index

\* Parameters a caller may give: n >= 0, min_buffer >= 0, batch_count >= 1
ValidParams ==
    /\ sel_call.method = "best_n" => ArgN >= 0 /\ ArgMinBuffer >= 0
    /\ sel_call.method = "batched" => ArgBatchCount >= 1

\* C1: on a non-empty frame list with strictly increasing index values (equal
\* to the list positions or not), select_frames with best_n, batched or
\* outlier_removal and valid parameters returns a list, without an exception,
\* of frames of the input with strictly increasing index values.
C1_OrderPreservation ==
    ( /\ sel_call.op = "select_frames"
      /\ sel_call.method \in {"best_n", "batched", "outlier_removal"}
      /\ ValidParams
      /\ frames /= <<>> )
    => /\ sel_ret.kind = "list"
       /\ \A k \in 1..Len(sel_ret.frames) : sel_ret.frames[k] \in InputFrames
       /\ StrictlyIncreasingIndex(sel_ret.frames)

\* C5 as stated: after the relaxed second pass best_n has selected exactly
\* min(n, N) frames, for every n >= 1 and min_buffer >= 0.
C5_SecondPassReachesCount ==
    BestNRan => Len(sel_filled.frames) = Min(ArgN, Len(frames))

\* The frames of the input no pass selected
UnselectedFrames(sel) ==
    {k \in 1..Len(frames) : frames[k].index \notin sel.indices}

\* C5 amended: the two passes of best_n never select more than min(n, N)
\* frames, and they select fewer only when min_buffer >= 4 and every frame left
\* unselected is closer than max(1, min_buffer // 2) to a selected frame.
C5_SecondPassFillsUntilStarved ==
    BestNRan =>
       /\ Len(sel_filled.frames) <= Min(ArgN, Len(frames))
       /\ Len(sel_filled.frames) < Min(ArgN, Len(frames)) =>
            /\ ArgMinBuffer >= 4
            /\ \A k \in UnselectedFrames(sel_filled) :
                  \E s \in sel_filled.indices :
                      Abs(frames[k].index - s) < Max(1, ArgMinBuffer \div 2)

\* The first pass fell short and the second pass made up the whole difference
C5_Witness ==
    /\ BestNRan
    /\ Len(sel_initial.frames) < Min(ArgN, Len(frames))
    /\ Len(sel_filled.frames) = Min(ArgN, Len(frames))
    /\ ArgMinBuffer >= 4

\* C6: best_n returns at most min(n, N) frames, and the empty list when
\* n <= 0.
C6_BestNCountBound ==
    Selected("best_n") =>
       /\ sel_ret.kind = "list" /\ ArgN >= 1 =>
              Len(sel_ret.frames) <= Min(ArgN, Len(frames))
       /\ ArgN <= 0 => sel_ret = Returned(<<>>)

\* best_n returned as many frames as it may, from a list longer than n
C6_Witness ==
    /\ Selected("best_n")
    /\ sel_ret.kind = "list"
    /\ ArgN >= 1
    /\ ArgN < Len(frames)
    /\ Len(sel_ret.frames) = ArgN

\* C7: with min_buffer in 0..3 (relaxed gap 1) and distinct index values,
\* best_n returns exactly min(n, N) frames for every n >= 1.
C7_SmallBufferExactCount ==
    (BestNRan /\ ArgMinBuffer \in 0..3) =>
       /\ sel_ret.kind = "list"
       /\ Len(sel_ret.frames) = Min(ArgN, Len(frames))

\* C8: every two frames the first pass of best_n selected have index values
\* at least min_buffer apart.
C8_FirstPassGap ==
    BestNRan =>
       \A a, b \in 1..Len(sel_initial.frames) :
          a /= b =>
             Abs(sel_initial.frames[a].index - sel_initial.frames[b].index)
                 >= ArgMinBuffer

\* The first pass selected two frames and turned one down for its gap
C8_Witness ==
    /\ BestNRan
    /\ ArgMinBuffer >= 2
    /\ Len(sel_initial.frames) >= 2
    /\ Len(sel_initial.frames) < Min(ArgN, Len(frames))

\* The position of input frame p in a stable descending sort by score among
\* the positions of cand: one more than the number of candidates that come
\* before it (a higher score, or the same score and an earlier position).
RefRank(cand, p) ==
    1 + Cardinality({q \in cand :
            \/ frames[q].sharpness_score > frames[p].sharpness_score
            \/ /\ frames[q].sharpness_score = frames[p].sharpness_score
               /\ q < p})

RefOrder(cand) ==
    [r \in 1..Cardinality(cand) |-> CHOOSE p \in cand : RefRank(cand, p) = r]

\* The reference greedy: the index values selected once the first k
\* candidates of order were looked at, starting from chosen
RECURSIVE RefGreedy(_, _, _, _, _)
RefGreedy(order, k, n, gap, chosen) ==
    IF k = 0 THEN chosen
    ELSE LET before == RefGreedy(order, k - 1, n, gap, chosen)
             i == frames[order[k]].index
         IN IF /\ Len(before) < n
               /\ \A j \in 1..Len(before) : Abs(i - before[j]) >= gap
            THEN Append(before, i)
            ELSE before

RefFirstPass ==
    LET order == RefOrder(1..Len(frames))
    IN RefGreedy(order, Len(order), Min(ArgN, Len(frames)), ArgMinBuffer, <<>>)

RefSecondPass ==
    LET first == RefFirstPass
        order == RefOrder({p \in 1..Len(frames) :
                     \A j \in 1..Len(first) : frames[p].index /= first[j]})
    IN RefGreedy(order, Len(order), Min(ArgN, Len(frames)),
                 Max(1, ArgMinBuffer \div 2), first)

SelectionOrder(sel) == [k \in 1..Len(sel.frames) |-> sel.frames[k].index]

\* C9: both passes of best_n look at their candidates in descending score
\* order, equal scores in input order, so what they select is what the
\* reference greedy selects on a stable descending sort.
C9_StableGreedy ==
    BestNRan =>
       /\ SelectionOrder(sel_initial) = RefFirstPass
       /\ SelectionOrder(sel_filled) = RefSecondPass

\* Two frames share the top score and only the earlier one was selected
C9_Witness ==
    /\ BestNRan
    /\ \E a, b \in 1..Len(frames) :
          /\ a < b
          /\ frames[a].sharpness_score = frames[b].sharpness_score
          /\ \A q \in 1..Len(frames) :
                frames[q].sharpness_score <= frames[a].sharpness_score
          /\ frames[a].index \in sel_filled.indices
          /\ frames[b].index \notin sel_filled.indices

\* C10: on a non-empty list of N frames the batched policy with
\* batch_count B >= 1 returns exactly min(B, N) frames.
C10_BatchedCount ==
    (Selected("batched") /\ frames /= <<>> /\ ArgBatchCount >= 1) =>
       /\ sel_ret.kind = "list"
       /\ Len(sel_ret.frames) = Min(ArgBatchCount, Len(frames))

\* batched with fewer batches than frames: one frame per batch
C10_Witness ==
    /\ Selected("batched")
    /\ Len(frames) >= 3
    /\ ArgBatchCount = 2
    /\ Len(sel_ret.frames) = 2

\* C11: for each batch of the batched policy, the frame selected from it has
\* the maximum sharpness_score of the batch's frames, and among several frames
\* of the batch with that maximum it is the one at the earliest position.
C11_BatchedMaxFirst ==
    (Selected("batched") /\ frames /= <<>> /\ ArgBatchCount >= 1) =>
       LET B == Min(ArgBatchCount, Len(frames))
       IN /\ sel_ret.kind = "list"
          /\ Len(sel_ret.frames) = B
          /\ \A i \in 0..(B - 1) :
                LET b == batch_bounds(Len(frames), B, i)
                    batch == (b.start_idx + 1)..b.end_idx
                IN \E p \in batch :
                      /\ sel_ret.frames[i + 1] = frames[p]
                      /\ \A q \in batch :
                            frames[q].sharpness_score <= frames[p].sharpness_score
                      /\ \A q \in batch :
                            frames[q].sharpness_score = frames[p].sharpness_score
                               => p <= q

\* one batch of three frames whose maximum is shared by the last two: the
\* second frame is the one selected
C11_Witness ==
    /\ Selected("batched")
    /\ Len(frames) = 3
    /\ ArgBatchCount = 1
    /\ frames[1].sharpness_score < frames[2].sharpness_score
    /\ frames[2].sharpness_score = frames[3].sharpness_score
    /\ sel_ret.kind = "list"
    /\ sel_ret.frames = <<frames[2]>>

\* the index values of the frames of fs are pairwise at least gap apart
PairwiseApart(fs, gap) ==
    \A a, b \in 1..Len(fs) :
        a /= b => Abs(fs[a].index - fs[b].index) >= gap

C31_BatchesPartition ==
    (Selected("batched") /\ frames /= <<>> /\ ArgBatchCount >= 1) =>
       LET N == Len(frames)
           B == Min(ArgBatchCount, N)
           size(k) == sel_batches[k].end_idx - sel_batches[k].start_idx
       IN /\ Len(sel_batches) = B
          /\ sel_batches[1].start_idx = 0
          /\ sel_batches[B].end_idx = N
          /\ \A k \in 1..(B - 1) :
                /\ sel_batches[k].end_idx = sel_batches[k + 1].start_idx
                /\ size(k) = N \div B
          /\ size(B) = N - (B - 1) * (N \div B)
          /\ \A k \in 1..B : size(k) >= 1
          /\ \A p \in 0..(N - 1) :
                Cardinality({k \in 1..B : /\ sel_batches[k].start_idx <= p
                                          /\ p < sel_batches[k].end_idx}) = 1

\* three frames in two batches: the last batch takes the remainder
C31_Witness ==
    /\ Selected("batched")
    /\ Len(frames) = 3
    /\ ArgBatchCount = 2
    /\ sel_batches = <<[start_idx |-> 0, end_idx |-> 1],
                       [start_idx |-> 1, end_idx |-> 3]>>
    /\ Len(sel_ret.frames) = 2

\* every frame's index value is its (0-based) list position
PositionalIndex == \A k \in 1..Len(frames) : frames[k].index = k - 1

\* C17: for the best_n and batched policies the preview is exact: on a
\* non-empty frame list (here: with index = position and parameters a caller
\* may give) preview_selection returns the same number as the length of the
\* list that select_frames returns for the same method and parameters.
C17_PreviewExact ==
    ( /\ sel_call.op = "select_frames"
      /\ sel_call.method \in {"best_n", "batched"}
      /\ frames /= <<>>
      /\ PositionalIndex
      /\ ValidParams ) =>
       /\ sel_ret.kind = "list"
       /\ preview_selection(frames, sel_call.method, sel_call.params)
             = ReturnedCount(Len(sel_ret.frames))

KnownMethods == {"best_n", "batched", "outlier_removal"}

\* C19: for every frame list, including the empty one, select_frames and
\* preview_selection signal an error (unsupported method) when the policy
\* name is not one of best_n, batched, outlier_removal, and return no result.
C19_UnknownMethodIsError ==
    (sel_call.op /= "none" /\ sel_call.method \notin KnownMethods) =>
       sel_ret = Raised("ValueError")

\* C20: with zero input frames, select_frames returns the empty list and
\* preview_selection returns 0 for each of the three policies and every
\* parameter set, without raising.
C20_EmptyInput ==
    (frames = <<>> /\ sel_call.method \in KnownMethods) =>
       /\ sel_call.op = "select_frames" => sel_ret = Returned(<<>>)
       /\ sel_call.op = "preview_selection" => sel_ret = ReturnedCount(0)

\* the preview of best_n on no frames with a negative n: 0, not min(n, 0)
C20_Witness ==
    /\ frames = <<>>
    /\ sel_call.op = "preview_selection"
    /\ sel_call.method = "best_n"
    /\ ArgN < 0
    /\ sel_ret = ReturnedCount(0)

(***************************************************************************)
(* Properties of best_n on the sample frames, under SampleSpec             *)
(***************************************************************************)

\* the index values of the returned frames, in the order returned
ReturnedIndices == [k \in 1..Len(sel_ret.frames) |-> sel_ret.frames[k].index]

\* C26: on frames with indices 0..N-1 whose scores rise with the index in
\* three bands, best_n with n and min_buffer >= 1 such that n frames fit
\* returns exactly n frames in ascending index order, min_buffer apart,
\* counted down from the last (highest-scored) frame: it takes frames of the
\* top band before any lower-scored one as far as the spacing allows.  For the
\* 100 frames of the fixture, n = 10 and min_buffer = 3 these are the indices
\* 72, 75, ..., 99.
C26_BandedBestN ==
    (BestNRan /\ (ArgN - 1) * ArgMinBuffer < Len(frames)) =>
       /\ sel_ret.kind = "list"
       /\ Len(sel_ret.frames) = ArgN
       /\ \A k \in 1..ArgN :
             /\ sel_ret.frames[k] \in InputFrames
             /\ sel_ret.frames[k].index
                   = Len(frames) - 1 - ArgMinBuffer * (ArgN - k)
       /\ (Len(frames) = 100 /\ ArgN = 10 /\ ArgMinBuffer = 3) =>
             ReturnedIndices = <<72, 75, 78, 81, 84, 87, 90, 93, 96, 99>>

\* the call of the claim: 100 frames, n = 10, min_buffer = 3; seven of the
\* ten frames come from the top band 80..99
C26_Witness ==
    /\ BestNRan
    /\ Len(frames) = 100
    /\ ArgN = 10
    /\ ArgMinBuffer = 3
    /\ Len(sel_ret.frames) = 10
    /\ Cardinality({k \in 1..10 : sel_ret.frames[k].index >= 80}) = 7
    /\ sel_ret.frames[1].index = 72

(***************************************************************************)
(* Properties of outlier_removal, under OutlierSpec                        *)
(***************************************************************************)

ArgFactor == params_get(sel_call.params, "factor", DEFAULT_FACTOR)
ArgWindowSize == params_get(sel_call.params, "window_size", DEFAULT_WINDOW_SIZE)
ArgSensitivity == factor_to_sensitivity(ArgFactor)

\* select_frames ran outlier_removal on a non-empty list
OutlierRan == Selected("outlier_removal") /\ frames /= <<>>

ReturnedFrames == {sel_ret.frames[k] : k \in 1..Len(sel_ret.frames)}

\* the frame at 1-based position k is not in the returned list
Dropped(k) == frames[k] \notin ReturnedFrames

\* The neighbours of the frame at 1-based position k: the positions other
\* than k at most half a window away, half = window_size // 2 (which is
\* also (window_size + 1) // 2 for an even window_size)
RefNeighbours(k) ==
    {j \in 1..Len(frames) : j /= k /\ Abs(j - k) <= ArgWindowSize \div 2}

RECURSIVE RefSumUpto(_, _)
RefSumUpto(positions, k) ==
    IF k = 0 THEN 0
    ELSE (IF k \in positions THEN frames[k].sharpness_score ELSE 0)
            + RefSumUpto(positions, k - 1)

\* max score - min score over the input
RefRange ==
    CHOOSE r \in 0..MaxOutlierScore :
        /\ \E a, b \in 1..Len(frames) :
              frames[a].sharpness_score - frames[b].sharpness_score = r
        /\ \A a, b \in 1..Len(frames) :
              frames[a].sharpness_score - frames[b].sharpness_score <= r

\* The claimed condition for dropping the frame at 1-based position k at
\* sensitivity sens, 0 < sens < 100: with L neighbours of score sum S, own
\* score c and range R, "c < mean" is c * L < S and
\* "(mean - c) / R * 100 > (100 - sens) / 4" is (S - c*L) * 400 > (100 - sens) * R * L
RefOutlier(k, sens) ==
    LET L == Cardinality(RefNeighbours(k))
        S == RefSumUpto(RefNeighbours(k), Len(frames))
        c == frames[k].sharpness_score
    IN /\ L >= 3
       /\ RefRange /= 0
       /\ c * L < S
       /\ (S - c * L) * 400 > (100 - sens) * RefRange * L

RemovedAt(f) ==
    LET kept == select_outlier_removal_frames(frames, f, ArgWindowSize).frames
    IN InputFrames \ {kept[k] : k \in 1..Len(kept)}

\* C13: for fixed frames and window_size, outlier_removal is monotone in
\* sensitivity over 0..100, boundaries included: every frame removed at the
\* sensitivity of the call is also removed at every sensitivity that is at
\* least as high (a factor at most as high), so the number of removed frames
\* never decreases as sensitivity rises.
C13_MonotoneInSensitivity ==
    OutlierRan =>
       /\ sel_ret.kind = "list"
       /\ \A f2 \in Factors :
             factor_to_sensitivity(f2) >= ArgSensitivity =>
                LET removed1 == InputFrames \ ReturnedFrames
                    removed2 == RemovedAt(f2)
                IN /\ removed1 \subseteq removed2
                   /\ Cardinality(removed1) <= Cardinality(removed2)

\* a call that removes a frame at a sensitivity above 0, for which a higher
\* sensitivity below 100 removes that frame and one more
C13_Witness ==
    /\ OutlierRan
    /\ ArgSensitivity > 0
    /\ InputFrames \ ReturnedFrames /= {}
    /\ \E f2 \in Factors :
          /\ factor_to_sensitivity(f2) > ArgSensitivity
          /\ factor_to_sensitivity(f2) < 100
          /\ (InputFrames \ ReturnedFrames) \subseteq RemovedAt(f2)
          /\ (InputFrames \ ReturnedFrames) /= RemovedAt(f2)

\* C14: for every non-empty input and every window_size, outlier_removal
\* with a factor that maps to sensitivity 0 returns the full input unchanged,
\* and with a factor that maps to sensitivity 100 returns the empty list.
C14_SensitivityBoundaries ==
    OutlierRan =>
       /\ ArgSensitivity = 0 => sel_ret = Returned(frames)
       /\ ArgSensitivity = 100 => sel_ret = Returned(<<>>)

\* factor 0.0 (sensitivity 100) on frames of one and the same score, with a
\* window too small for 3 neighbours: everything is removed all the same
C14_Witness ==
    /\ OutlierRan
    /\ Len(frames) >= 2
    /\ \A k \in 1..Len(frames) :
          frames[k].sharpness_score = frames[1].sharpness_score
    /\ ArgFactor = 0
    /\ ArgWindowSize = 3
    /\ sel_ret = Returned(<<>>)

\* clamp(round((2.0 - factor) * 50), 0, 100) for a factor in hundredths:
\* (200 - factor) / 2 rounded to the nearest integer, a half away from zero
RoundedSensitivity(factor) ==
    LET rounded == IF factor <= 200 THEN (200 - factor + 1) \div 2
                   ELSE 0 - ((factor - 200 + 1) \div 2)
    IN Max(0, Min(100, rounded))

\* C15: outlier_removal converts factor to sensitivity by rounding to the
\* nearest integer: the sensitivity it works with is
\* clamp(round((2.0 - factor) * 50), 0, 100), for every factor.
C15_SensitivityRounded ==
    OutlierRan => ArgSensitivity = RoundedSensitivity(ArgFactor)

\* the frame at 1-based position k has fewer than 3 neighbours in its window
FewNeighbours(k) == Cardinality(RefNeighbours(k)) < 3

\* C16: a frame that has fewer than 3 neighbours inside its window is never
\* classified as an outlier by outlier_removal (it is returned), for every
\* sensitivity in 0..100.
C16_FewNeighboursNeverOutlier ==
    OutlierRan =>
       \A k \in 1..Len(frames) : FewNeighbours(k) => ~Dropped(k)

\* C16, amended: a frame that has fewer than 3 neighbours inside its window
\* is never classified as an outlier by outlier_removal, for every
\* sensitivity below 100.
C16_FewNeighboursKeptBelowFull ==
    (OutlierRan /\ ArgSensitivity < 100) =>
       /\ sel_ret.kind = "list"
       /\ \A k \in 1..Len(frames) : FewNeighbours(k) => ~Dropped(k)

\* at a sensitivity strictly between 0 and 100 a frame with one or two
\* neighbours, all of them sharper than it by the whole score range, is kept
\* while another frame of the list is removed
C16_Witness ==
    /\ OutlierRan
    /\ 0 < ArgSensitivity /\ ArgSensitivity < 100
    /\ \E k \in 1..Len(frames) :
          /\ FewNeighbours(k)
          /\ RefNeighbours(k) /= {}
          /\ \A j \in RefNeighbours(k) :
                frames[j].sharpness_score
                   = frames[k].sharpness_score + RefRange
          /\ RefRange > 0
          /\ ~Dropped(k)
    /\ \E k \in 1..Len(frames) : Dropped(k)

(***************************************************************************)
(* Properties of the outlier_removal preview, under PreviewSpec            *)
(***************************************************************************)

\* the claimed removal rate in percent
RefRemovalRate(factor) ==
    IF factor >= 200 THEN 5
    ELSE IF factor >= 150 THEN 10
    ELSE IF factor >= 100 THEN 20
    ELSE 30

\* C18: for outlier_removal on N > 0 frames, preview_selection returns
\* max(1, floor(N * (1 - r))) where r is 5% if factor >= 2.0, 10% if factor >=
\* 1.5, 20% if factor >= 1.0 and 30% otherwise, whatever the scores and the
\* window_size; the result lies between 1 and N.
C18_PreviewOutlierCount ==
    ( /\ sel_call.op = "preview_selection"
      /\ sel_call.method = "outlier_removal"
      /\ frames /= <<>> ) =>
       /\ sel_ret = ReturnedCount(
              Max(1, (Len(frames) * (100 - RefRemovalRate(ArgFactor))) \div 100))
       /\ 1 <= sel_ret.count
       /\ sel_ret.count <= Len(frames)

\* C35: with window_size <= 3 or with at most 3 frames, and sensitivity
\* below 100, outlier_removal removes nothing and returns the entire input,
\* whatever the scores, because no frame then has the 3 neighbours required.
C35_SmallWindowOrInputKeepsAll ==
    (/\ OutlierRan
     /\ ArgSensitivity < 100
     /\ ArgWindowSize <= 3 \/ Len(frames) <= 3) =>
       /\ sel_ret.kind = "list"
       /\ sel_ret.frames = frames

\* a call with window_size 3 on more than 3 frames, at a sensitivity strictly
\* between 0 and 100, in which a frame scores below both frames next to it
\* by the whole score range, and a call on 3 frames with a wider window
C35_Witness ==
    /\ OutlierRan
    /\ 0 < ArgSensitivity /\ ArgSensitivity < 100
    /\ sel_ret.frames = frames
    /\ \/ /\ ArgWindowSize = 3
          /\ Len(frames) > 3
          /\ \E k \in 2..(Len(frames) - 1) :
                /\ frames[k - 1].sharpness_score - frames[k].sharpness_score = RefRange
                /\ frames[k + 1].sharpness_score - frames[k].sharpness_score = RefRange
                /\ RefRange > 0
       \/ /\ ArgWindowSize > 3
          /\ Len(frames) = 3
          /\ frames[1].sharpness_score - frames[2].sharpness_score = RefRange
          /\ frames[3].sharpness_score - frames[2].sharpness_score = RefRange
          /\ RefRange > 0

(***************************************************************************)
(* Properties of outlier_removal on nearly equal scores, under             *)
(* NearEqualSpec (and OutlierSpec)                                         *)
(***************************************************************************)

\* the score of the frame at 1-based position k is not strictly below the
\* mean of its neighbours' scores
NotBelowNeighbours(k) ==
    frames[k].sharpness_score * Cardinality(RefNeighbours(k))
        >= RefSumUpto(RefNeighbours(k), Len(frames))

\* C34: for every non-empty input, every window_size and every sensitivity
\* below 100, outlier_removal returns a non-empty list: a frame whose score
\* is not strictly below the mean of its neighbours, in particular any frame
\* holding the global maximum score, is never removed.
C34_NotBelowNeighboursKept ==
    (OutlierRan /\ ArgSensitivity < 100) =>
       /\ sel_ret.frames /= <<>>
       /\ \A k \in 1..Len(frames) : NotBelowNeighbours(k) => ~Dropped(k)

(***************************************************************************)
(* Properties of SharpnessAnalyzer, under ScorerSpec                       *)
(***************************************************************************)

\* The score _calculate_single_frame_sharpness leads to for the path at
\* 1-based position i: the variance of its image, 0.0 if it cannot be read
ExpectedScore(i) ==
    IF paths[i].readable THEN calculate_laplacian_variance(paths[i].file) ELSE 0

\* The 0-based start of the chunk that holds 1-based position i
ChunkOf(i) == ((i - 1) \div chunk_size) * chunk_size

\* C2: whatever the worker count, the chunk size and the order in which the
\* tasks complete, the scorer returns N scores and the score at position i is
\* the one of paths[i] (in every chunk whose parallel stage did not fail as a
\* whole); so the list is the same for every chunk size and worker count.
C2_ScoresFollowPaths ==
    sc_pc = "done" =>
       /\ Len(scores) = Len(paths)
       /\ \A i \in 1..Len(paths) :
             ChunkOf(i) \notin failed_chunks => scores[i] = ExpectedScore(i)

\* Several chunks, several workers, and a task that completed before one
\* submitted ahead of it
C2_Witness ==
    /\ sc_pc = "done"
    /\ failed_chunks = {}
    /\ max_workers >= 2
    /\ Len(paths) > chunk_size
    /\ \E a, b \in 1..Len(collect_order) :
          a < b /\ collect_order[a] > collect_order[b]
    /\ \A i \in 1..Len(paths) : paths[i].readable

\* C3: frames whose scoring raises get 0.0 and every other frame its computed
\* score; a failing frame makes neither its chunk nor a later one fail as a
\* whole (a chunk fails as a whole only when submit or the callback raises).
C3_FrameFailureAbsorbed ==
    sc_pc = "done" =>
       /\ Len(scores) = Len(paths)
       /\ \A i \in 1..Len(paths) :
             /\ ChunkOf(i) \in failed_chunks =>
                   ChunkOf(i) \in submit_failed \/ callback_raises(cb_kind)
             /\ (ChunkOf(i) \notin failed_chunks /\ ~paths[i].readable) =>
                   scores[i] = 0
             /\ (ChunkOf(i) \notin failed_chunks /\ paths[i].readable) =>
                   scores[i] = calculate_laplacian_variance(paths[i].file)

\* An unreadable frame, a readable one in the same chunk and one in a later
\* chunk, each with its score
C3_Witness ==
    /\ sc_pc = "done"
    /\ failed_chunks = {}
    /\ chunk_size >= 2
    /\ Len(paths) > chunk_size
    /\ ~paths[1].readable /\ scores[1] = 0
    /\ paths[2].readable /\ scores[2] = ExpectedScore(2) /\ scores[2] > 0
    /\ paths[chunk_size + 1].readable
    /\ scores[chunk_size + 1] = ExpectedScore(chunk_size + 1)

\* C4: calculate_sharpness gives the same scores with progress_callback=None
\* as with a recording callback, i.e. (by C2) the score of each path, unless
\* the pool itself fails.
C4_CallbackDoesNotChangeScores ==
    (sc_pc = "done" /\ cb_kind \in {"record", "fallback"} /\ submit_failed = {}) =>
       /\ Len(scores) = Len(paths)
       /\ \A i \in 1..Len(paths) : scores[i] = ExpectedScore(i)

\* frames whose future the collection loop has handled, over all chunks
FramesCompleted == processed_count + completed_count

C22_ChunkBarrierAndPoolBound ==
    /\ Len(task) <= chunk_size
    /\ \A k \in 1..Len(task) :
          task[k] \in {"queued", "running"} =>
             /\ sc_pc \in {"collect", "failing"}
             /\ chunk_start + k <= Len(paths)
             /\ ChunkOf(chunk_start + k) = chunk_start
    /\ Cardinality(Running) <= Min(max_workers, Len(task))

\* the second chunk is being scored with the whole pool busy; the pool is
\* smaller than the chunk, so a frame of the chunk waits
C22_Witness ==
    /\ sc_pc = "collect"
    /\ chunk_start > 0
    /\ Len(task) > max_workers
    /\ Cardinality(Running) = max_workers
    /\ \E k \in 1..Len(task) : task[k] = "queued"

\* C23: if the parallel stage of a chunk fails as a whole, every score of
\* that chunk is 0.0, frames of it already scored included; the scores of the
\* other chunks are those of their paths; scoring goes on with the next chunk
\* (between chunks the scores of all chunks so far are there) and the output
\* has length N.
C23_ChunkFailureZeroed ==
    /\ \A i \in 1..Len(scores) :
          /\ ChunkOf(i) \in failed_chunks => scores[i] = 0
          /\ ChunkOf(i) \notin failed_chunks => scores[i] = ExpectedScore(i)
    /\ sc_pc = "loop" => Len(scores) = Min(chunk_start, Len(paths))
    /\ sc_pc \in {"collect", "failing"} => Len(scores) = chunk_start
    /\ sc_pc = "done" /\ failed_chunks /= {} => Len(scores) = Len(paths)

\* the chunk just left failed after its first frame had been scored in the
\* pool; it is not the first chunk, whose first frame keeps its score
C23_Witness ==
    /\ sc_pc = "loop"
    /\ chunk_start - chunk_size > 0
    /\ (chunk_start - chunk_size) \in failed_chunks
    /\ 0 \notin failed_chunks
    /\ scores[1] = ExpectedScore(1) /\ scores[1] > 0
    /\ task[1] = "done"
    /\ paths[chunk_start - chunk_size + 1].readable
    /\ scores[chunk_start - chunk_size + 1] = 0

\* calculate_sharpness (not _calculate_sharpness_parallel alone) has returned
SharpnessReturned == sc_pc = "done" /\ cb_kind /= "none"

\* the returned ExtractionResult has the input's frames, in order, with every
\* field but sharpness_score as in the input, and the input's other fields
SameButScores ==
    /\ sharpness_result.kind = "ExtractionResult"
    /\ Len(sharpness_result.frames) = Len(extraction_result.frames)
    /\ \A k \in 1..Len(extraction_result.frames) :
          LET new == sharpness_result.frames[k]
              old == extraction_result.frames[k]
          IN /\ new.path = old.path
             /\ new.index = old.index
             /\ new.source_video = old.source_video
             /\ new.source_index = old.source_index
             /\ new.output_name = old.output_name
    /\ sharpness_result.metadata = extraction_result.metadata
    /\ sharpness_result.temp_dir = extraction_result.temp_dir
    /\ sharpness_result.input_type = extraction_result.input_type

\* C24: calculate_sharpness does not modify its input: what it returns has
\* the input's frames in the same order with the same path, index,
\* source_video, source_index and output_name, and the input's metadata,
\* temp_dir and input_type; the input ExtractionResult and its frames keep
\* their values at every step, the original sharpness_score included.
C24_InputPreserved ==
    /\ [](SharpnessReturned => SameButScores)
    /\ [](\A k \in 1..Len(extraction_result.frames) :
            extraction_result.frames[k].sharpness_score = NoScore)
    /\ [][extraction_result' = extraction_result]_vars

\* a run over two chunks has returned: the returned frames carry scores, the
\* input's frames still carry none
C24_Witness ==
    /\ SharpnessReturned
    /\ failed_chunks = {}
    /\ Len(paths) > chunk_size
    /\ sharpness_result.kind = "ExtractionResult"
    /\ Len(sharpness_result.frames) = Len(paths)
    /\ \A k \in 1..Len(paths) :
          /\ paths[k].readable
          /\ sharpness_result.frames[k].sharpness_score = ExpectedScore(k)
          /\ extraction_result.frames[k].sharpness_score = NoScore

\* C25: once cancellation has been requested, no chunk that has not yet
\* started is scored: no step taken with the cancel flag set submits a chunk
\* to the pool (frames already in flight may complete).
C25_NoChunkAfterCancel ==
    [][processing_cancelled =>
          ~(sc_pc = "loop" /\ sc_pc' \in {"collect", "failing"})]_vars

(***************************************************************************)
(* Properties of the configuration wizards, under WizardSpec               *)
(***************************************************************************)

\* the last button the two-phase form handled
NextHandled == form = TwoPhase /\ ui_event.op = "next"
BackHandled == form = TwoPhase /\ ui_event.op = "back"

\* the step's data is in config_data
DataStored == \A key \in DOMAIN ui_event.data :
                 key \in DOMAIN config_data /\ config_data[key] = ui_event.data[key]

VideoInput == dict_get(config_data, "input_type", None)
                 \in {"video", "video_directory"}

\* C27 as claimed: in TwoPhaseConfigurationForm, Next on a step that
\* validates stores the step's data and advances current_step by exactly one
\* (on confirm it starts processing, with the stored configuration, and
\* leaves current_step unchanged); Next on a step that fails validation
\* changes neither current_step nor config_data; Back with current_step > 0
\* moves to the previous step and Back at step 0 changes nothing.
C27_NextBackByOne ==
    /\ (NextHandled /\ ui_event.valid) =>
          /\ DataStored
          /\ IF step_name(TwoPhase, ui_event.step) = "confirm"
             THEN /\ current_step = ui_event.step
                  /\ processing_screen.pushed =>
                        processing_screen.config = config_data
             ELSE current_step = ui_event.step + 1
    /\ (NextHandled /\ ~ui_event.valid) =>
          current_step = ui_event.step /\ config_data = ui_event.config
    /\ BackHandled =>
          /\ config_data = ui_event.config
          /\ current_step = IF ui_event.step > 0 THEN ui_event.step - 1
                            ELSE ui_event.step

\* the step the form shows when it is brought to step s: the one behind it
\* when s is the fps step and the input is no video
ShownFrom(s) ==
    IF step_name(TwoPhase, s) = "fps" /\ ~VideoInput THEN s + 1 ELSE s

\* C27 as amended: Next on a step that validates stores the step's data and
\* advances current_step by one, or by two past the fps step when the input
\* type is neither video nor video_directory (on confirm it starts
\* processing and leaves current_step unchanged); Next on a step that fails
\* validation changes neither current_step nor config_data; Back with
\* current_step > 0 brings the form to the previous step, from where the
\* same fps skip moves it one step on again; Back at step 0 changes nothing.
C27_NextBackShownSteps ==
    /\ (NextHandled /\ ui_event.valid) =>
          /\ DataStored
          /\ IF step_name(TwoPhase, ui_event.step) = "confirm"
             THEN /\ current_step = ui_event.step
                  /\ processing_screen.pushed =>
                        processing_screen.config = config_data
             ELSE current_step = ShownFrom(ui_event.step + 1)
    /\ (NextHandled /\ ~ui_event.valid) =>
          current_step = ui_event.step /\ config_data = ui_event.config
    /\ BackHandled =>
          /\ config_data = ui_event.config
          /\ current_step = IF ui_event.step > 0 THEN ShownFrom(ui_event.step - 1)
                            ELSE ui_event.step

\* Next on output_dir with a directory input: the form is on output_format
C27_Witness ==
    /\ NextHandled
    /\ ui_event.valid
    /\ step_name(TwoPhase, ui_event.step) = "output_dir"
    /\ dict_get(config_data, "input_type", None) = "directory"
    /\ config_data["output_dir"] = "/out"
    /\ step_name(TwoPhase, current_step) = "output_format"

\* C28: the FPS step is shown exactly when input_type is video or
\* video_directory: ConfigurationForm._should_show_step says so of "fps" and
\* says yes of input_type, input_path, output_dir, output_format, width,
\* force_overwrite and confirm; TwoPhaseConfigurationForm rests on the fps
\* step only with such an input and, coming from output_dir with such an
\* input, does rest on it.
C28_FpsShownForVideoInputs ==
    /\ form = Legacy =>
          /\ should_show_step(config_data, "fps") <=> VideoInput
          /\ \A step \in {"input_type", "input_path", "output_dir",
                           "output_format", "width", "force_overwrite",
                           "confirm"} : should_show_step(config_data, step)
    /\ form = TwoPhase =>
          /\ step_name(TwoPhase, current_step) = "fps" => VideoInput
          /\ ( /\ NextHandled
               /\ ui_event.valid
               /\ step_name(TwoPhase, ui_event.step) = "output_dir"
               /\ VideoInput )
               => step_name(TwoPhase, current_step) = "fps"

\* C30: in TwoPhaseConfigurationForm every Back pressed on a step past the
\* first lands on an earlier step, whatever the input type, so that pressing
\* Back repeatedly brings current_step to 0; in particular Back from
\* output_format with a directory input does not land on output_format
\* again.
C30_BackReachesFirstStep ==
    (BackHandled /\ ui_event.step > 0) => current_step < ui_event.step

\* C33: in the legacy ConfigurationForm, after any sequence of Next and Back
\* presses, Next on the final confirm step included, current_step is a valid
\* index into steps (0 <= current_step < len(steps)) and names a step that
\* _should_show_step reports as visible.
C33_CurrentStepShown ==
    form = Legacy =>
       /\ 0 <= current_step
       /\ current_step < Len(steps(Legacy))
       /\ should_show_step(config_data, step_name(Legacy, current_step))

(***************************************************************************)
(* Properties of IntRangeValidator, under ValidatorSpec                    *)
(***************************************************************************)

Validated == validation /= NoValidation

\* the input without the whitespace around it: from its first character
\* that is no blank to its last
Trimmed ==
    LET solid == {k \in 1..Len(value) : value[k] /= " "}
    IN IF solid = {} THEN <<>>
       ELSE SubSeq(value, CHOOSE k \in solid : \A j \in solid : k <= j,
                          CHOOSE k \in solid : \A j \in solid : k >= j)

\* the trimmed input without a leading sign
Unsigned ==
    IF Trimmed /= <<>> /\ Trimmed[1] \in {"+", "-"}
    THEN SubSeq(Trimmed, 2, Len(Trimmed))
    ELSE Trimmed

\* the trimmed input denotes an integer: digits behind an optional sign,
\* with single underscores between digits allowed as in Python's literals
DenotesInteger ==
    /\ Unsigned /= <<>>
    /\ \A k \in 1..Len(Unsigned) : Unsigned[k] \in Digits \cup {"_"}
    /\ Unsigned[1] \in Digits
    /\ Unsigned[Len(Unsigned)] \in Digits
    /\ \A k \in 1..(Len(Unsigned) - 1) :
          ~(Unsigned[k] = "_" /\ Unsigned[k + 1] = "_")

Pow10(e) == CASE e = 0 -> 1 [] e = 1 -> 10 [] e = 2 -> 100 [] e = 3 -> 1000
              [] e = 4 -> 10000 [] e = 5 -> 100000

RECURSIVE PlaceSum(_, _)
PlaceSum(ds, k) ==
    IF k > Len(ds) THEN 0
    ELSE digit_value(ds[k]) * Pow10(Len(ds) - k) + PlaceSum(ds, k + 1)

IsDigit(c) == c \in Digits

\* the integer denoted: the digits weighted by their decimal places
DenotedInteger ==
    LET magnitude == PlaceSum(SelectSeq(Unsigned, IsDigit), 1)
    IN IF Trimmed[1] = "-" THEN 0 - magnitude ELSE magnitude

\* C29: validate succeeds if and only if the trimmed input denotes an
\* integer v with (min_value absent or v >= min_value) and (max_value absent
\* or v <= max_value); empty input, non-integer input and out-of-range
\* values each yield a failure.
C29_ValidIffIntegerInRange ==
    Validated =>
       /\ validation.is_valid <=>
             /\ DenotesInteger
             /\ validator.min_value = <<>>
                   \/ DenotedInteger >= validator.min_value[1]
             /\ validator.max_value = <<>>
                   \/ DenotedInteger <= validator.max_value[1]
       /\ Trimmed = <<>> => validation = failure("Value cannot be empty")
       /\ (Trimmed /= <<>> /\ ~DenotesInteger)
             => validation = failure("Must be a valid integer")
       /\ ~validation.is_valid => validation.failure /= ""

\* a padded input at the minimum of a validator with both bounds passes
C29_Witness ==
    /\ Validated
    /\ validation.is_valid
    /\ validator.min_value /= <<>>
    /\ validator.max_value /= <<>>
    /\ value[1] = " "
    /\ DenotedInteger = validator.min_value[1]


(***************************************************************************)
(* Properties of SelectionScreen, under SelectionSpec                      *)
(***************************************************************************)

\* current_parameters holds parameters of current_method only, each within
\* the [min, max] method_definitions declares for it
ParametersValid(method, params) ==
    /\ DOMAIN params \subseteq DOMAIN method_definitions[method]
    /\ \A param_name \in DOMAIN params :
          /\ params[param_name] >= method_definitions[method][param_name].min
          /\ params[param_name] <= method_definitions[method][param_name].max

\* one step of the screen as C36 describes it
ParameterStep ==
    /\ ParametersValid(current_method', current_parameters')
    /\ selection_event'.op = "select" =>
          /\ current_method' = selection_event'.method
          /\ current_parameters' = default_parameters(current_method')
    /\ (selection_event'.op = "input" /\ selection_event'.method /= current_method) =>
          UNCHANGED <<current_method, current_parameters>>

\* C36: in SelectionScreen, after any sequence of method selections and
\* parameter edits, current_parameters contains only parameters defined for
\* current_method and every integer value lies within that parameter's
\* declared [min, max]; selecting a method resets current_parameters to
\* exactly that method's defaults, and an edit coming from an input that
\* belongs to a method other than the current one changes nothing.
C36_ParametersOfCurrentMethod == [][ParameterStep]_vars

\* the last event was an edit in an input of another method than the current
\* one, after an edit of the current method was clamped to its maximum
C36_Witness ==
    /\ selection_event.op = "input"
    /\ selection_event.method \in DOMAIN method_definitions
    /\ selection_event.method /= current_method
    /\ \E param_name \in DOMAIN current_parameters :
          /\ current_parameters[param_name]
                = method_definitions[current_method][param_name].max
          /\ current_parameters[param_name]
                /= method_definitions[current_method][param_name].default

\* a preview task that is scheduled and neither finished nor cancelled
LivePreviewTasks ==
    {t \in 1..Len(asyncio_tasks) :
        ~task_done(asyncio_tasks[t]) /\ ~asyncio_tasks[t].cancel_requested}

\* C37: under every interleaving of parameter or method changes with running
\* preview tasks, at most one preview task is live (scheduled and neither
\* finished nor cancelled) at a time, and once the last task has finished
\* without error the displayed selected_count is the preview computed for
\* the current method and current parameters: a stale preview never
\* overwrites a newer one.
C37_OneLivePreviewAndCurrentCount ==
    /\ Cardinality(LivePreviewTasks) <= 1
    /\ (Mounted /\ asyncio_tasks[preview_task].pc = "done") =>
          selected_count =
              processor_preview_selection(current_method, current_parameters)

\* two changes came while a preview task was pending: a task was cancelled
\* in its sleep or before its start, another after its display, the last
\* task finished and the count on display is that of edited parameters
C37_Witness ==
    /\ Len(asyncio_tasks) >= 3
    /\ asyncio_tasks[1].pc = "cancelled"
    /\ asyncio_tasks[2].pc = "cancelled"
    /\ asyncio_tasks[preview_task].pc = "done"
    /\ selected_count.method = current_method
    /\ selected_count.params /= default_parameters(current_method)
    /\ selected_count.params = current_parameters


(***************************************************************************)
(* Properties of the legacy ProcessingScreen, under ProcessingSpec         *)
(***************************************************************************)

\* the UI thread runs a pending _update_progress_ui call in this step
ProgressEventDelivered ==
    /\ ui_call.fn = "_update_progress_ui"
    /\ ui_call' = NoUiCall

\* C38: once processing_complete or processing_cancelled has been set, no
\* progress event changes the status text, phase text or progress bar, even
\* an event that the worker thread emitted before the flag was set and that
\* reaches the UI thread afterwards.
C38_NoProgressUpdateAfterFlag ==
    [][(ProgressEventDelivered /\ (processing_complete \/ processing_cancelled))
          => widgets' = widgets]_vars

\* a progress event of a known phase that differs from what is on display
\* was handed over before a flag was set and run by the UI thread after it;
\* the display still shows the earlier event
C38_Witness ==
    /\ progress_delivery.phase = "saving"
    /\ progress_delivery.cancelled
    /\ ~progress_delivery.complete
    /\ widgets.status_text = phase_names("extraction")
    /\ ui_call = NoUiCall

====
